---------------------------- MODULE Spec2Model ----------------------------
(***************************************************************************)
(* PDFYantra: the page workspace store (src/store/usePdfStore.ts), the     *)
(* parsed-document cache (src/services/pdfCache.ts) and the page-range     *)
(* parser (parsePageRange), modelled as state machines.                    *)
(*                                                                         *)
(* Ids produced by Math.random() are modelled as draws from a counter:     *)
(* every draw is a new value (two draws never collide).                    *)
(* HistoryEntry.timestamp (Date.now()) is never read by the store and is   *)
(* left out of the snapshots.                                              *)
(***************************************************************************)
EXTENDS Integers, Sequences, FiniteSets, TLC

\* ------------------------------------------------------------------ bounds
MaxFiles == 2
MaxPagesPerFile == 2
MaxPageIds == 4
MaxOps == 4
MaxRunOps == 5
MaxRecorded == 52
MaxDocs == 4
MaxCalls == 2
MaxParses == 4
MaxLen == 4
MaxPagesArg == 2
MaxRenders == 2
MaxSearchPages == 2
MaxTotalLen == 3
MaxQueryLen == 2
MaxExportPages == 3
MaxFixedCount == 2
MaxReplaces == 1
MaxSearches == 2
MaxVersions == 2
MaxFlowOps == 3
MaxPrompts == 5
MaxExportOps == 2

\* ------------------------------------------------------- program constants
HistoryCap == 50
CacheCapacity == 3
SnippetLength == 60

VARIABLES
  files,            \* Map<string, UploadedFile>: file id -> content version
  pages,            \* PDFPage[]
  selectedPageIds,  \* Set<string>
  past,             \* HistoryEntry[]
  future,           \* HistoryEntry[]
  isHistoryLocked,  \* boolean
  nextFileId,       \* number of file ids drawn so far + 1
  nextPageId,       \* number of page ids drawn so far + 1
  last,             \* history variable: the last operation, its arguments, the state before it
  run,              \* history variable: the current run of recorded mutations / undos / redos
  undoStreak,       \* history variable: how many undo calls in a row have changed the state
  ops,              \* history variable: operations counted against the bound of the specification
  docCache,         \* pdfCache.ts docCache: Map<fileId, PDFDocumentProxy>, entries in insertion order
  destroyed,        \* the parsed handles whose destroy() has been called
  nextHandle,       \* number of parsed handles made so far + 1
  calls,            \* the getCachedDoc calls in flight, by slot
  cacheLast,        \* history variable: the last cache operation and the cache before it
  input,            \* parsePageRange: the argument input, a string as a sequence of characters
  maxPages,         \* parsePageRange: the argument maxPages
  result,           \* parsePageRange: the array returned
  parsePc,          \* "ready" before the call of parsePageRange, "done" after it
  renders,          \* the renderPageHighRes calls in flight, by slot
  searchQuery,      \* searchWorkspace: the argument query, a string as a sequence of characters
  searchPages,      \* searchWorkspace: the argument pages, each with the text getPageText gives
  searchResult,     \* searchWorkspace: the array of result groups returned
  searchPc,         \* "ready" before the call of searchWorkspace, "done" after it
  progressCalls,    \* searchWorkspace: the calls of onProgress it made, in order
  exportPages,      \* mergePages / splitWorkspace: the argument pages
  fileMap,          \* mergePages / splitWorkspace: the keys of the argument fileMap
  config,           \* splitWorkspace: the argument config
  exportResult,     \* mergePages / splitWorkspace: what the call returned or threw
  exportPc,         \* "ready" before the call, "merged" / "split" after it
  replaces,         \* the replaceFileContent calls in flight, by slot
  nextVersion,      \* number of file contents (blobs) made so far
  parsedFrom,       \* history variable: handle -> the content version it was parsed from
  renderFrom,       \* history variable: render slot -> the content version of the file it was handed
  textCache,        \* searchService.ts textCache: entries (fileId, pageIndex) -> text of a content version
  searchDocCache,   \* searchService.ts docCache: fileId -> document parsed from a content version
  searches,         \* the performSearch calls in flight, by slot
  searchState,      \* the store's searchQuery, searchResults, isSearching
  flowLast,         \* history variable: the last step of the asynchronous flows
  flowOps,          \* history variable: calls started, counted against the bound
  pwFile,           \* processFileWithPassword: what the argument file is
  currentPassword,  \* processFileWithPassword: currentPassword, undefined when not given
  pwPc,             \* "unlock" / "prompt" while the loop runs, "returned" / "thrown" after it
  pwResult,         \* what processFileWithPassword returned: "file" or "null"
  prompts,          \* the calls of promptForPassword so far, in order
  pwLast,           \* history variable: the last result of unlockPdfFile, the last answer
  status,           \* AppStatus: "idle", "processing", "success", "error"
  errorMessage,     \* string | null: <<>> for null, <<text>> for a message
  job,              \* the tool operation (split, compress, merge, export, import) in flight
  statusLast,       \* history variable: the last handler that ran
  pageArrays,       \* the PDFPage[] objects made so far, by identity
  fileMaps,         \* the Map<string, UploadedFile> objects made so far, by identity
  pagesObj,         \* the identity of the array the store holds in pages
  filesObj,         \* the identity of the Map the store holds in files
  exportRun,        \* the export call (mergePages, splitWorkspace, convertFromPdf) in flight
  exportOps         \* history variable: store calls made, counted against the bound

storeVars == <<files, pages, selectedPageIds, past, future, isHistoryLocked,
               nextFileId, nextPageId>>
ghostVars == <<last, run, undoStreak, ops>>
cacheVars == <<docCache, destroyed, nextHandle, calls, cacheLast>>
parseVars == <<input, maxPages, result, parsePc>>
renderVars == <<renders>>
searchVars == <<searchQuery, searchPages, searchResult, searchPc, progressCalls>>
exportVars == <<exportPages, fileMap, config, exportResult, exportPc>>
serviceVars == <<renderVars, searchVars, exportVars>>
flowVars == <<replaces, nextVersion, parsedFrom, renderFrom, textCache, searchDocCache,
              searches, searchState, flowLast, flowOps>>
passwordVars == <<pwFile, currentPassword, pwPc, pwResult, prompts, pwLast>>
statusVars == <<status, errorMessage, job, statusLast>>
objectVars == <<pageArrays, fileMaps, pagesObj, filesObj, exportRun, exportOps>>
appVars == <<flowVars, passwordVars, statusVars, objectVars>>
vars == <<storeVars, ghostVars, cacheVars, parseVars, serviceVars, appVars>>

\* ----------------------------------------------------------------- helpers
Range(s) == {s[i] : i \in 1..Len(s)}

Ids(pgs) == {pgs[i].id : i \in 1..Len(pgs)}

FileIdsIssued == 1..(nextFileId - 1)

PageIdsIssued == 1..(nextPageId - 1)

\* Array.prototype.slice(-n)
\* a slice that lets one entry too many through
SliceOneMore(s, n) == IF Len(s) <= n + 1 THEN s ELSE SubSeq(s, Len(s) - n, Len(s))

SliceLast(s, n) == IF Len(s) <= n THEN s ELSE SubSeq(s, Len(s) - n + 1, Len(s))

\* JavaScript's % : the result takes the sign of the dividend
Min2(a, b) == IF a <= b THEN a ELSE b

Max2(a, b) == IF a >= b THEN a ELSE b

JsRem(a, b) == IF a >= 0 THEN a % b ELSE 0 - ((0 - a) % b)

\* A page as generateThumbnails builds it for page i (1-based) of file f.
\* turns is a history field: the net number of quarter turns applied to the page.
NewPage(id, f, i) ==
  [id |-> id, fileId |-> f, pageIndex |-> i - 1, pageNumber |-> i,
   thumbnailUrl |-> <<f, i - 1, 0>>, rotation |-> 0, turns |-> 0]

Snapshot == [pages |-> pages, selectedPageIds |-> selectedPageIds]

\* ------------------------------------------------------------ pushToHistory
PastAfterPush ==
  IF isHistoryLocked THEN past
  ELSE SliceLast(Append(past, Snapshot), HistoryCap)

FutureAfterPush == IF isHistoryLocked THEN future ELSE <<>>

PushToHistory ==
  /\ past' = PastAfterPush
  /\ future' = FutureAfterPush
  /\ UNCHANGED <<files, pages, selectedPageIds, isHistoryLocked, nextFileId, nextPageId>>

\* --------------------------------------------------------------- undo, redo
\* an undo that does not look at the lock
UndoIgnoringLock ==
  IF Len(past) = 0
  THEN UNCHANGED storeVars
  ELSE /\ pages' = past[Len(past)].pages
       /\ selectedPageIds' = past[Len(past)].selectedPageIds
       /\ past' = SubSeq(past, 1, Len(past) - 1)
       /\ future' = <<Snapshot>> \o future
       /\ UNCHANGED <<files, isHistoryLocked, nextFileId, nextPageId>>

\* an undo that restores the pages but not the selection
UndoPagesOnly ==
  IF isHistoryLocked \/ Len(past) = 0
  THEN UNCHANGED storeVars
  ELSE /\ pages' = past[Len(past)].pages
       /\ past' = SubSeq(past, 1, Len(past) - 1)
       /\ future' = <<Snapshot>> \o future
       /\ UNCHANGED <<files, selectedPageIds, isHistoryLocked, nextFileId, nextPageId>>

Undo ==
  IF isHistoryLocked \/ Len(past) = 0
  THEN UNCHANGED storeVars
  ELSE /\ pages' = past[Len(past)].pages
       /\ selectedPageIds' = past[Len(past)].selectedPageIds
       /\ past' = SubSeq(past, 1, Len(past) - 1)
       /\ future' = <<Snapshot>> \o future
       /\ UNCHANGED <<files, isHistoryLocked, nextFileId, nextPageId>>

Redo ==
  IF isHistoryLocked \/ Len(future) = 0
  THEN UNCHANGED storeVars
  ELSE /\ pages' = future[1].pages
       /\ selectedPageIds' = future[1].selectedPageIds
       /\ future' = SubSeq(future, 2, Len(future))
       /\ past' = Append(past, Snapshot)
       /\ UNCHANGED <<files, isHistoryLocked, nextFileId, nextPageId>>

LockHistory ==
  /\ isHistoryLocked' = TRUE
  /\ UNCHANGED <<files, pages, selectedPageIds, past, future, nextFileId, nextPageId>>

UnlockHistory ==
  /\ isHistoryLocked' = FALSE
  /\ UNCHANGED <<files, pages, selectedPageIds, past, future, nextFileId, nextPageId>>

\* --------------------------------------------------------- addFilesAndPages
\* The callers (handleFilesSelected) pass a file with a newly drawn id and the
\* pages generateThumbnails made for it, each with a newly drawn id.
ThumbnailPages(f, n, firstId) == [i \in 1..n |-> NewPage(firstId + i - 1, f, i)]

AddFilesAndPages(n) ==
  /\ nextFileId <= MaxFiles
  /\ nextPageId + n - 1 <= MaxPageIds
  /\ past' = PastAfterPush
  /\ future' = FutureAfterPush
  /\ files' = [f \in DOMAIN files \cup {nextFileId} |->
                 IF f = nextFileId THEN 0 ELSE files[f]]
  /\ pages' = pages \o ThumbnailPages(nextFileId, n, nextPageId)
  /\ nextFileId' = nextFileId + 1
  /\ nextPageId' = nextPageId + n
  /\ UNCHANGED <<selectedPageIds, isHistoryLocked>>

\* ----------------------------------------------------- removeFile, removePage
PagesWithoutFile(fileId) == LET Keep(p) == p.fileId # fileId IN SelectSeq(pages, Keep)

PagesOfFile(fileId) == LET Keep(p) == p.fileId = fileId IN SelectSeq(pages, Keep)

\* a removal that leaves the selection alone
RemoveFileKeepingSelection(fileId) ==
  /\ past' = PastAfterPush
  /\ future' = FutureAfterPush
  /\ files' = [f \in DOMAIN files \ {fileId} |-> files[f]]
  /\ pages' = PagesWithoutFile(fileId)
  /\ UNCHANGED <<selectedPageIds, isHistoryLocked, nextFileId, nextPageId>>

RemoveFile(fileId) ==
  /\ past' = PastAfterPush
  /\ future' = FutureAfterPush
  /\ files' = [f \in DOMAIN files \ {fileId} |-> files[f]]
  /\ pages' = PagesWithoutFile(fileId)
  /\ selectedPageIds' = selectedPageIds \ Ids(PagesOfFile(fileId))
  /\ UNCHANGED <<isHistoryLocked, nextFileId, nextPageId>>

PagesWithoutId(pageId) == LET Keep(p) == p.id # pageId IN SelectSeq(pages, Keep)

RemovePage(pageId) ==
  /\ past' = PastAfterPush
  /\ future' = FutureAfterPush
  /\ pages' = PagesWithoutId(pageId)
  /\ selectedPageIds' = selectedPageIds \ {pageId}
  /\ UNCHANGED <<files, isHistoryLocked, nextFileId, nextPageId>>

\* ------------------------------------------------------------------ setPages
OrderChanged(newPages) ==
  \/ Len(pages) # Len(newPages)
  \/ \E i \in 1..Len(pages) : pages[i].id # newPages[i].id

SetPages(newPages) ==
  /\ past' = IF OrderChanged(newPages) THEN PastAfterPush ELSE past
  /\ future' = IF OrderChanged(newPages) THEN FutureAfterPush ELSE future
  /\ pages' = newPages
  /\ UNCHANGED <<files, selectedPageIds, isHistoryLocked, nextFileId, nextPageId>>

\* ---------------------------------------------------- duplicateSelectedPages
RECURSIVE DuplicateAtEnd(_, _, _)
\* a duplication that appends the copies after all the pages
DuplicateAtEnd(pgs, sel, freshId) ==
  IF pgs = <<>> THEN <<>>
  ELSE IF Head(pgs).id \in sel
       THEN <<Head(pgs)>> \o DuplicateAtEnd(Tail(pgs), sel, freshId + 1)
              \o <<[Head(pgs) EXCEPT !.id = freshId]>>
       ELSE <<Head(pgs)>> \o DuplicateAtEnd(Tail(pgs), sel, freshId)

RECURSIVE DuplicateFrom(_, _, _)
\* pages.forEach: push p, and a copy with a newly drawn id when p is selected
DuplicateFrom(pgs, sel, freshId) ==
  IF pgs = <<>> THEN <<>>
  ELSE IF Head(pgs).id \in sel
       THEN <<Head(pgs), [Head(pgs) EXCEPT !.id = freshId]>>
              \o DuplicateFrom(Tail(pgs), sel, freshId + 1)
       ELSE <<Head(pgs)>> \o DuplicateFrom(Tail(pgs), sel, freshId)

SelectedCount == Cardinality({i \in 1..Len(pages) : pages[i].id \in selectedPageIds})

DuplicateSelectedPages ==
  IF selectedPageIds = {}
  THEN UNCHANGED storeVars
  ELSE /\ nextPageId + SelectedCount - 1 <= MaxPageIds
       /\ past' = PastAfterPush
       /\ future' = FutureAfterPush
       /\ pages' = DuplicateFrom(pages, selectedPageIds, nextPageId)
       /\ nextPageId' = nextPageId + SelectedCount
       /\ UNCHANGED <<files, selectedPageIds, isHistoryLocked, nextFileId>>

\* ------------------------------------------------------ sortPagesByFileOrder
RECURSIVE PagesInFileOrder(_)
PagesInFileOrder(orderedFileIds) ==
  IF orderedFileIds = <<>> THEN <<>>
  ELSE PagesOfFile(Head(orderedFileIds)) \o PagesInFileOrder(Tail(orderedFileIds))

SortPagesByFileOrder(orderedFileIds) ==
  /\ pages' = PagesInFileOrder(orderedFileIds)
  /\ UNCHANGED <<files, selectedPageIds, past, future, isHistoryLocked,
                 nextFileId, nextPageId>>

\* ------------------------------------------------------------ clearWorkspace
ClearWorkspace ==
  /\ files' = <<>>
  /\ pages' = <<>>
  /\ selectedPageIds' = {}
  /\ UNCHANGED <<past, future, isHistoryLocked, nextFileId, nextPageId>>

\* ----------------------------------------------------------------- selection
ToggleSelectPage(pageId, isMulti) ==
  /\ selectedPageIds' =
       LET nextSelected == IF isMulti THEN selectedPageIds ELSE {}
       IN  IF pageId \in nextSelected /\ isMulti
           THEN nextSelected \ {pageId}
           ELSE nextSelected \cup {pageId}
  /\ UNCHANGED <<files, pages, past, future, isHistoryLocked, nextFileId, nextPageId>>

SelectAllPages ==
  /\ selectedPageIds' =
       IF Cardinality(selectedPageIds) = Len(pages) THEN {} ELSE Ids(pages)
  /\ UNCHANGED <<files, pages, past, future, isHistoryLocked, nextFileId, nextPageId>>

DeselectAllPages ==
  /\ selectedPageIds' = {}
  /\ UNCHANGED <<files, pages, past, future, isHistoryLocked, nextFileId, nextPageId>>

\* ------------------------------------------------------------------ rotation
Delta(direction) == IF direction = "cw" THEN 90 ELSE 0 - 90

\* a rotation without the fix-up of a negative remainder
NewRotNoFixup(rotation, direction) == JsRem(rotation + Delta(direction), 360)

NewRot(rotation, direction) ==
  LET newRot == JsRem(rotation + Delta(direction), 360)
  IN  IF newRot < 0 THEN newRot + 360 ELSE newRot

Rotated(p, direction) ==
  [p EXCEPT !.rotation = NewRot(p.rotation, direction),
            !.turns = p.turns + (IF direction = "cw" THEN 1 ELSE 0 - 1)]

RotatePage(pageId, direction) ==
  /\ past' = PastAfterPush
  /\ future' = FutureAfterPush
  /\ pages' = [i \in 1..Len(pages) |->
                 IF pages[i].id = pageId THEN Rotated(pages[i], direction) ELSE pages[i]]
  /\ UNCHANGED <<files, selectedPageIds, isHistoryLocked, nextFileId, nextPageId>>

RotateSelectedPages(direction) ==
  IF selectedPageIds = {}
  THEN UNCHANGED storeVars
  ELSE /\ past' = PastAfterPush
       /\ future' = FutureAfterPush
       /\ pages' = [i \in 1..Len(pages) |->
                      IF pages[i].id \in selectedPageIds
                      THEN Rotated(pages[i], direction) ELSE pages[i]]
       /\ UNCHANGED <<files, selectedPageIds, isHistoryLocked, nextFileId, nextPageId>>

\* ------------------------------------------------------- deleteSelectedPages
PagesNotSelected == LET Keep(p) == p.id \notin selectedPageIds IN SelectSeq(pages, Keep)

DeleteSelectedPages ==
  IF selectedPageIds = {}
  THEN UNCHANGED storeVars
  ELSE /\ past' = PastAfterPush
       /\ future' = FutureAfterPush
       /\ pages' = PagesNotSelected
       /\ selectedPageIds' = {}
       /\ UNCHANGED <<files, isHistoryLocked, nextFileId, nextPageId>>

\* ------------------------------------------------------- history variables
PreState ==
  [files |-> files, pages |-> pages, selectedPageIds |-> selectedPageIds,
   past |-> past, future |-> future, isHistoryLocked |-> isHistoryLocked]

Call(op, pageId, fileId, direction, isMulti, list) ==
  [op |-> op, pageId |-> pageId, fileId |-> fileId, direction |-> direction,
   isMulti |-> isMulti, list |-> list]

IdleRun ==
  [mode |-> "idle", n |-> 0, u |-> 0, r |-> 0,
   start |-> [pages |-> <<>>, selectedPageIds |-> {}],
   end |-> [pages |-> <<>>, selectedPageIds |-> {}]]

\* kind: "record" for a mutation that reached pushToHistory with the history
\* unlocked, "undo" / "redo" for a call of undo / redo with the history unlocked,
\* "other" for everything else.  run follows the latest unbroken sequence
\* op1..opN, undo x u, redo x r.
RunAfter(kind) ==
  CASE kind = "record" ->
         IF run.mode = "ops"
         THEN [run EXCEPT !.n = run.n + 1,
                          !.end = [pages |-> pages', selectedPageIds |-> selectedPageIds']]
         ELSE [mode |-> "ops", n |-> 1, u |-> 0, r |-> 0,
               start |-> Snapshot,
               end |-> [pages |-> pages', selectedPageIds |-> selectedPageIds']]
    [] kind = "undo" ->
         IF run.mode \in {"ops", "undo"} /\ run.u < run.n
         THEN [run EXCEPT !.mode = "undo", !.u = run.u + 1]
         ELSE IdleRun
    [] kind = "redo" ->
         IF run.mode \in {"undo", "redo"} /\ run.r < run.u
         THEN [run EXCEPT !.mode = "redo", !.r = run.r + 1]
         ELSE IdleRun
    [] OTHER -> IdleRun

Note(kind, call) ==
  /\ last' = [call |-> call, pre |-> PreState]
  /\ run' = RunAfter(kind)
  /\ undoStreak' = IF call.op # "undo" THEN 0
                   ELSE IF storeVars' # storeVars THEN undoStreak + 1 ELSE undoStreak
  /\ UNCHANGED <<cacheVars, parseVars, serviceVars, appVars>>

Recorded(reached) == IF reached /\ ~isHistoryLocked THEN "record" ELSE "other"

Unlocked(kind) == IF isHistoryLocked THEN "other" ELSE kind

\* -------------------------------------------------------------------- inputs
\* PageGrid.handleDragEnd: the page at index i moved to index j
Move(s, i, j) ==
  LET rest == SubSeq(s, 1, i - 1) \o SubSeq(s, i + 1, Len(s))
  IN  SubSeq(rest, 1, j - 1) \o <<s[i]>> \o SubSeq(rest, j, Len(rest))

Drop(s, i) == SubSeq(s, 1, i - 1) \o SubSeq(s, i + 1, Len(s))

Repeat(s, i) == Append(s, s[i])

\* Lists setPages may be handed: every single move of the current pages, and the
\* current pages with one page missing or one page repeated.
NewPagesArgs ==
  {Move(pages, i, j) : i, j \in 1..Len(pages)}
    \cup {Drop(pages, i) : i \in 1..Len(pages)}
    \cup {Repeat(pages, i) : i \in 1..Len(pages)}

\* Lists of distinct document ids drawn so far, in any order
FileOrderArgs ==
  {s \in UNION {[1..k -> FileIdsIssued] : k \in 0..(nextFileId - 1)} :
     \A i, j \in 1..Len(s) : i # j => s[i] # s[j]}

Directions == {"cw", "ccw"}

\* ------------------------------------------------------------- specification
StoreInit ==
  /\ files = <<>>
  /\ pages = <<>>
  /\ selectedPageIds = {}
  /\ past = <<>>
  /\ future = <<>>
  /\ isHistoryLocked = FALSE
  /\ nextFileId = 1
  /\ nextPageId = 1
  /\ ops = 0
  /\ undoStreak = 0
  /\ run = IdleRun
  /\ last = [call |-> Call("init", 0, 0, "none", FALSE, <<>>), pre |-> PreState]

CacheInit ==
  /\ docCache = <<>>
  /\ destroyed = {}
  /\ nextHandle = 1
  /\ calls = [c \in 1..MaxCalls |-> [pc |-> "idle", file |-> 0, solo |-> TRUE]]
  /\ cacheLast = [op |-> "init", file |-> 0, pdf |-> 0, solo |-> TRUE, oldestHit |-> FALSE,
                  pre |-> [docCache |-> <<>>, destroyed |-> {}, oldestHit |-> FALSE]]

ParseInit ==
  /\ input = <<>>
  /\ maxPages = 0
  /\ result = <<>>
  /\ parsePc = "ready"

RenderInit == renders = [r \in 1..MaxRenders |-> [pc |-> "idle", file |-> 0, pdf |-> 0]]

SearchInit ==
  /\ searchQuery = <<>>
  /\ searchPages = <<>>
  /\ searchResult = <<>>
  /\ searchPc = "ready"
  /\ progressCalls = <<>>

ExportInit ==
  /\ exportPages = <<>>
  /\ fileMap = {}
  /\ config = [mode |-> "extract_all", fixedCount |-> 1, rangeInput |-> <<>>]
  /\ exportResult = [thrown |-> FALSE]
  /\ exportPc = "ready"

IdleReplace == [pc |-> "idle", fileId |-> 0, version |-> 0]

IdleSearch ==
  [pc |-> "idle", seq |-> 0, query |-> <<>>, files |-> <<>>, pages |-> <<>>, k |-> 0,
   texts |-> <<>>, from |-> 0]

FlowInit ==
  /\ replaces = [c \in 1..MaxReplaces |-> IdleReplace]
  /\ nextVersion = 1
  /\ parsedFrom = <<>>
  /\ renderFrom = [r \in 1..MaxRenders |-> 0]
  /\ textCache = {}
  /\ searchDocCache = {}
  /\ searches = [c \in 1..MaxSearches |-> IdleSearch]
  /\ searchState = [searchQuery |-> <<>>, searchResults |-> <<>>, isSearching |-> FALSE,
                    issued |-> 0, resultsOf |-> 0]
  /\ flowLast = [op |-> "init", fileId |-> 0, present |-> FALSE, cached |-> <<>>]
  /\ flowOps = 0

Undefined == [given |-> FALSE, text |-> <<>>]

PasswordInit ==
  /\ pwFile = "plain"
  /\ currentPassword = Undefined
  /\ pwPc = "unlock"
  /\ pwResult = "none"
  /\ prompts = <<>>
  /\ pwLast = [unlock |-> "none", cancelled |-> FALSE]

NoMessage == <<>>

IdleJob == [pc |-> "idle", kind |-> "none"]

StatusInit ==
  /\ status = "idle"
  /\ errorMessage = NoMessage
  /\ job = IdleJob
  /\ statusLast = "init"

NoPage == [fileId |-> 0, pageIndex |-> 0, pageNumber |-> 0, rotation |-> 0]

IdleExport ==
  [pc |-> "idle", kind |-> "none",
   config |-> [mode |-> "extract_all", fixedCount |-> 1, rangeInput |-> <<>>],
   pagesRef |-> 0, filesRef |-> 0, order |-> <<>>, k |-> 0, page |-> NoPage,
   loaded |-> <<>>, seenPages |-> <<>>, seenFiles |-> <<>>,
   atCall |-> [pages |-> <<>>, files |-> <<>>], during |-> 0, outcome |-> [thrown |-> FALSE]]

ObjectInit ==
  /\ pageArrays = << <<>> >>
  /\ fileMaps = << <<>> >>
  /\ pagesObj = 1
  /\ filesObj = 1
  /\ exportRun = IdleExport
  /\ exportOps = 0

AppInit == FlowInit /\ PasswordInit /\ StatusInit /\ ObjectInit

ServiceInit == RenderInit /\ SearchInit /\ ExportInit

Init == StoreInit /\ CacheInit /\ ParseInit /\ ServiceInit /\ AppInit

Do(A, kind, call) ==
  /\ ops < MaxOps
  /\ A
  /\ Note(kind, call)
  /\ ops' = ops + 1

Next ==
  \/ \E n \in 1..MaxPagesPerFile :
       Do(AddFilesAndPages(n), Recorded(TRUE),
          Call("addFilesAndPages", 0, nextFileId, "none", FALSE, <<>>))
  \/ \E f \in FileIdsIssued :
       Do(RemoveFile(f), Recorded(TRUE), Call("removeFile", 0, f, "none", FALSE, <<>>))
  \/ \E id \in PageIdsIssued :
       Do(RemovePage(id), Recorded(TRUE), Call("removePage", id, 0, "none", FALSE, <<>>))
  \/ \E np \in NewPagesArgs :
       Do(SetPages(np), Recorded(OrderChanged(np)), Call("setPages", 0, 0, "none", FALSE, np))
  \/ \E o \in FileOrderArgs :
       Do(SortPagesByFileOrder(o), "other", Call("sortPagesByFileOrder", 0, 0, "none", FALSE, o))
  \/ Do(ClearWorkspace, "other", Call("clearWorkspace", 0, 0, "none", FALSE, <<>>))
  \/ \E id \in PageIdsIssued, m \in BOOLEAN :
       Do(ToggleSelectPage(id, m), "other", Call("toggleSelectPage", id, 0, "none", m, <<>>))
  \/ Do(SelectAllPages, "other", Call("selectAllPages", 0, 0, "none", FALSE, <<>>))
  \/ Do(DeselectAllPages, "other", Call("deselectAllPages", 0, 0, "none", FALSE, <<>>))
  \/ \E id \in PageIdsIssued, d \in Directions :
       Do(RotatePage(id, d), Recorded(TRUE), Call("rotatePage", id, 0, d, FALSE, <<>>))
  \/ \E d \in Directions :
       Do(RotateSelectedPages(d), Recorded(selectedPageIds # {}),
          Call("rotateSelectedPages", 0, 0, d, FALSE, <<>>))
  \/ Do(DeleteSelectedPages, Recorded(selectedPageIds # {}),
        Call("deleteSelectedPages", 0, 0, "none", FALSE, <<>>))
  \/ Do(DuplicateSelectedPages, Recorded(selectedPageIds # {}),
        Call("duplicateSelectedPages", 0, 0, "none", FALSE, <<>>))
  \/ Do(Undo, Unlocked("undo"), Call("undo", 0, 0, "none", FALSE, <<>>))
  \/ Do(Redo, Unlocked("redo"), Call("redo", 0, 0, "none", FALSE, <<>>))
  \/ Do(PushToHistory, "other", Call("pushToHistory", 0, 0, "none", FALSE, <<>>))
  \/ Do(LockHistory, "other", Call("lockHistory", 0, 0, "none", FALSE, <<>>))
  \/ Do(UnlockHistory, "other", Call("unlockHistory", 0, 0, "none", FALSE, <<>>))

Spec == Init /\ [][Next]_vars

\* ------------------------------------------------- runs of recorded mutations
\* SpecRun: sequences op1..opN of recorded mutations (and selection changes, which
\* start a new sequence), each followed to the end by N undos and then N redos.
\* The mutations act on the first page, the last page, the selection or a whole
\* document.
InRun == run.mode \in {"idle", "ops"}

DoRun(A, kind, call) ==
  /\ InRun
  /\ ops < MaxRunOps
  /\ A
  /\ Note(kind, call)
  /\ ops' = ops + 1

\* the ids of the first and the last page
EndIds == IF pages = <<>> THEN {} ELSE {pages[1].id, pages[Len(pages)].id}

NextRun ==
  \/ \E n \in 1..MaxPagesPerFile :
       DoRun(AddFilesAndPages(n), Recorded(TRUE),
             Call("addFilesAndPages", 0, nextFileId, "none", FALSE, <<>>))
  \/ \E f \in DOMAIN files :
       DoRun(RemoveFile(f), Recorded(TRUE), Call("removeFile", 0, f, "none", FALSE, <<>>))
  \/ \E id \in EndIds :
       DoRun(RemovePage(id), Recorded(TRUE), Call("removePage", id, 0, "none", FALSE, <<>>))
  \/ /\ Len(pages) >= 2
     /\ DoRun(SetPages(Move(pages, 1, Len(pages))), Recorded(TRUE),
              Call("setPages", 0, 0, "none", FALSE, Move(pages, 1, Len(pages))))
  \/ \E id \in EndIds, d \in Directions :
       DoRun(RotatePage(id, d), Recorded(TRUE), Call("rotatePage", id, 0, d, FALSE, <<>>))
  \/ \E d \in Directions :
       /\ selectedPageIds # {}
       /\ DoRun(RotateSelectedPages(d), Recorded(TRUE),
                Call("rotateSelectedPages", 0, 0, d, FALSE, <<>>))
  \/ /\ selectedPageIds # {}
     /\ DoRun(DeleteSelectedPages, Recorded(TRUE),
              Call("deleteSelectedPages", 0, 0, "none", FALSE, <<>>))
  \/ /\ selectedPageIds # {}
     /\ DoRun(DuplicateSelectedPages, Recorded(TRUE),
              Call("duplicateSelectedPages", 0, 0, "none", FALSE, <<>>))
  \/ \E id \in EndIds :
       DoRun(ToggleSelectPage(id, TRUE), "other",
             Call("toggleSelectPage", id, 0, "none", TRUE, <<>>))
  \/ /\ run.mode \in {"ops", "undo"}
     /\ run.u < run.n
     /\ Undo
     /\ Note(Unlocked("undo"), Call("undo", 0, 0, "none", FALSE, <<>>))
     /\ UNCHANGED ops
  \/ /\ \/ run.mode = "undo" /\ run.u = run.n
        \/ run.mode = "redo" /\ run.r < run.n
     /\ Redo
     /\ Note(Unlocked("redo"), Call("redo", 0, 0, "none", FALSE, <<>>))
     /\ UNCHANGED ops

SpecRun == Init /\ [][NextRun]_vars

\* ------------------------------------------------------------ the history cap
\* SpecCap: one document of one page, rotated clockwise up to MaxRecorded times
\* (every rotation is recorded), then any number of undos, then redos.
DoCap(A, kind, call) ==
  /\ InRun
  /\ ops < MaxRecorded
  /\ A
  /\ Note(kind, call)
  /\ ops' = ops + 1

NextCap ==
  \/ /\ pages = <<>>
     /\ DoCap(AddFilesAndPages(1), Recorded(TRUE),
              Call("addFilesAndPages", 0, nextFileId, "none", FALSE, <<>>))
  \/ /\ pages # <<>>
     /\ DoCap(RotatePage(pages[1].id, "cw"), Recorded(TRUE),
              Call("rotatePage", pages[1].id, 0, "cw", FALSE, <<>>))
  \/ /\ run.mode \in {"ops", "undo"}
     /\ run.u < run.n
     /\ Undo
     /\ Note(Unlocked("undo"), Call("undo", 0, 0, "none", FALSE, <<>>))
     /\ UNCHANGED ops
  \/ /\ run.mode \in {"undo", "redo"}
     /\ run.r < run.u
     /\ Redo
     /\ Note(Unlocked("redo"), Call("redo", 0, 0, "none", FALSE, <<>>))
     /\ UNCHANGED ops

SpecCap == Init /\ [][NextCap]_vars

\* ---------------------------------------------------------------- pdfCache
CacheIds(cache) == {cache[i].id : i \in 1..Len(cache)}

CacheGet(cache, id) == cache[CHOOSE i \in 1..Len(cache) : cache[i].id = id].pdf

\* Map.prototype.set: a new key goes to the end, a present key keeps its place
CacheSet(cache, id, pdf) ==
  IF id \in CacheIds(cache)
  THEN [i \in 1..Len(cache) |-> IF cache[i].id = id THEN [id |-> id, pdf |-> pdf] ELSE cache[i]]
  ELSE Append(cache, [id |-> id, pdf |-> pdf])

\* an eviction test that is late by one
CacheIsOverFull(cache) == Len(cache) > CacheCapacity

CacheIsFull(cache) == Len(cache) >= CacheCapacity

\* the cache after the eviction of its first key, when it is full
AfterEviction(cache) == IF CacheIsFull(cache) THEN Tail(cache) ELSE cache

\* the handles destroyed by that eviction
EvictedHandles(cache) == IF CacheIsFull(cache) THEN {Head(cache).pdf} ELSE {}

InFlight == {c \in 1..MaxCalls : calls[c].pc # "idle"}

\* oldestHit is a history field: the first entry of the cache has been returned by
\* a cache hit since it was inserted.
CacheNote(op, file, pdf, solo) ==
  cacheLast' = [op |-> op, file |-> file, pdf |-> pdf, solo |-> solo,
                oldestHit |->
                  CASE op = "hit" -> cacheLast.oldestHit \/ file = docCache[1].id
                    [] op \in {"finish", "clear"} ->
                         /\ cacheLast.oldestHit
                         /\ docCache' # <<>>
                         /\ docCache # <<>>
                         /\ docCache'[1] = docCache[1]
                    [] OTHER -> cacheLast.oldestHit,
                pre |-> [docCache |-> docCache, destroyed |-> destroyed,
                         oldestHit |-> cacheLast.oldestHit]]

\* getCachedDoc up to its first await: a hit returns the cached handle, a miss
\* waits for file.file.arrayBuffer().  solo is a history field: no other call has
\* been in flight during this one.
GetCachedDocStart(c, f) ==
  /\ calls[c].pc = "idle"
  /\ \A k \in 1..(c - 1) : calls[k].pc # "idle"   \* a new call takes the first free slot
  /\ IF f \in CacheIds(docCache)
     THEN /\ CacheNote("hit", f, CacheGet(docCache, f), TRUE)
          /\ UNCHANGED <<docCache, destroyed, nextHandle, calls>>
     ELSE /\ nextHandle + Cardinality(InFlight) <= MaxParses
          /\ calls' = [k \in 1..MaxCalls |->
                         IF k = c THEN [pc |-> "reading", file |-> f, solo |-> InFlight = {}]
                         ELSE [calls[k] EXCEPT !.solo = FALSE]]
          /\ CacheNote("miss", f, 0, InFlight = {})
          /\ UNCHANGED <<docCache, destroyed, nextHandle>>

\* the buffer is read: pdfjs.getDocument is called and its promise awaited
GetCachedDocParse(c) ==
  /\ calls[c].pc = "reading"
  /\ calls' = [calls EXCEPT ![c].pc = "parsing"]
  /\ CacheNote("parse", calls[c].file, 0, calls[c].solo)
  /\ UNCHANGED <<docCache, destroyed, nextHandle>>

\* the parse is done: evict when full, insert the new handle, return it
GetCachedDocFinish(c) ==
  /\ calls[c].pc = "parsing"
  /\ destroyed' = destroyed \cup EvictedHandles(docCache)
  /\ docCache' = CacheSet(AfterEviction(docCache), calls[c].file, nextHandle)
  /\ nextHandle' = nextHandle + 1
  /\ calls' = [calls EXCEPT ![c] = [pc |-> "idle", file |-> 0, solo |-> TRUE]]
  /\ CacheNote("finish", calls[c].file, nextHandle, calls[c].solo)

ClearDocCache ==
  /\ destroyed' = destroyed \cup {docCache[i].pdf : i \in 1..Len(docCache)}
  /\ docCache' = <<>>
  /\ CacheNote("clear", 0, 0, TRUE)
  /\ UNCHANGED <<nextHandle, calls>>

NextCache ==
  \/ \E c \in 1..MaxCalls, f \in 1..MaxDocs :
       GetCachedDocStart(c, f) /\ UNCHANGED <<storeVars, ghostVars, parseVars, serviceVars, appVars>>
  \/ \E c \in 1..MaxCalls :
       GetCachedDocParse(c) /\ UNCHANGED <<storeVars, ghostVars, parseVars, serviceVars, appVars>>
  \/ \E c \in 1..MaxCalls :
       GetCachedDocFinish(c) /\ UNCHANGED <<storeVars, ghostVars, parseVars, serviceVars, appVars>>
  \/ ClearDocCache /\ UNCHANGED <<storeVars, ghostVars, parseVars, serviceVars, appVars>>

SpecCache == Init /\ [][NextCache]_vars

\* ------------------------------------------------------- renderPageHighRes
\* The calls of renderPageHighRes in flight.  Each goes through getCachedDoc (a hit,
\* or the two awaits of a miss and then the eviction and the insertion) and keeps
\* the handle it was given while it awaits pdf.getPage and page.render.
Parsing == {r \in 1..MaxRenders : renders[r].pc \in {"reading", "parsing"}}

\* the handles that calls in flight have been given by getCachedDoc
Borrowed == {renders[r].pdf : r \in {k \in 1..MaxRenders : renders[k].pc \in {"getPage", "render"}}}

\* const pdf = await getCachedDoc(file), up to the first await inside it
RenderStart(r, f) ==
  /\ renders[r].pc = "idle"
  /\ \A k \in 1..(r - 1) : renders[k].pc # "idle"
  /\ IF f \in CacheIds(docCache)
     THEN renders' = [renders EXCEPT ![r] = [pc |-> "getPage", file |-> f,
                                              pdf |-> CacheGet(docCache, f)]]
     ELSE /\ nextHandle + Cardinality(Parsing) <= MaxParses
          /\ renders' = [renders EXCEPT ![r] = [pc |-> "reading", file |-> f, pdf |-> 0]]
  /\ UNCHANGED <<docCache, destroyed, nextHandle>>

\* getCachedDoc: the buffer is read, the parse is started and awaited
RenderRead(r) ==
  /\ renders[r].pc = "reading"
  /\ renders' = [renders EXCEPT ![r].pc = "parsing"]
  /\ UNCHANGED <<docCache, destroyed, nextHandle>>

\* getCachedDoc: the parse is done; evict when full, insert, return the handle;
\* then pdf.getPage is called and awaited
RenderParsed(r) ==
  /\ renders[r].pc = "parsing"
  /\ destroyed' = destroyed \cup EvictedHandles(docCache)
  /\ docCache' = CacheSet(AfterEviction(docCache), renders[r].file, nextHandle)
  /\ nextHandle' = nextHandle + 1
  /\ renders' = [renders EXCEPT ![r] = [pc |-> "getPage", file |-> renders[r].file,
                                        pdf |-> nextHandle]]

\* the page is there: page.render is called and awaited
RenderGotPage(r) ==
  /\ renders[r].pc = "getPage"
  /\ renders' = [renders EXCEPT ![r].pc = "render"]
  /\ UNCHANGED <<docCache, destroyed, nextHandle>>

\* the page is rendered: the call returns
RenderDone(r) ==
  /\ renders[r].pc = "render"
  /\ renders' = [renders EXCEPT ![r] = [pc |-> "idle", file |-> 0, pdf |-> 0]]
  /\ UNCHANGED <<docCache, destroyed, nextHandle>>

RenderFrame ==
  UNCHANGED <<storeVars, ghostVars, parseVars, searchVars, exportVars, calls, cacheLast,
              appVars>>

NextRender ==
  \/ \E r \in 1..MaxRenders, f \in 1..MaxDocs : RenderStart(r, f) /\ RenderFrame
  \/ \E r \in 1..MaxRenders : RenderRead(r) /\ RenderFrame
  \/ \E r \in 1..MaxRenders : RenderParsed(r) /\ RenderFrame
  \/ \E r \in 1..MaxRenders : RenderGotPage(r) /\ RenderFrame
  \/ \E r \in 1..MaxRenders : RenderDone(r) /\ RenderFrame

SpecRender == Init /\ [][NextRender]_vars

\* ----------------------------------------------------------- searchWorkspace
\* String.prototype.toLowerCase, on the letters of the inputs
LowerChar(c) == CASE c = "A" -> "a" [] c = "B" -> "b" [] OTHER -> c

ToLowerCase(str) == [i \in 1..Len(str) |-> LowerChar(str[i])]

RECURSIVE TrimStart(_)
TrimStart(str) == IF str # <<>> /\ Head(str) = " " THEN TrimStart(Tail(str)) ELSE str

RECURSIVE TrimEnd(_)
TrimEnd(str) ==
  IF str # <<>> /\ str[Len(str)] = " " THEN TrimEnd(SubSeq(str, 1, Len(str) - 1)) ELSE str

\* String.prototype.trim
Trim(str) == TrimEnd(TrimStart(str))

\* text.substring(start, end), 0-based, end exclusive
Substring(str, start, end) == SubSeq(str, start + 1, end)

RECURSIVE IndexOf(_, _, _)
\* String.prototype.indexOf(q, from) for a non-empty q: the 0-based position of the
\* first occurrence at or after from, -1 when there is none
IndexOf(str, q, from) ==
  IF from + Len(q) > Len(str) THEN 0 - 1
  ELSE IF Substring(str, from, from + Len(q)) = q THEN from
  ELSE IndexOf(str, q, from + 1)

GetSnippet(text, matchIndex, queryLength) ==
  LET start == Max2(0, matchIndex - SnippetLength)
      end == Min2(Len(text), matchIndex + queryLength + SnippetLength)
  IN  (IF start > 0 THEN <<"...">> ELSE <<>>)
        \o Substring(text, start, end)
        \o (IF end < Len(text) THEN <<"...">> ELSE <<>>)

\* where the scan of a page resumes after a match
NextCursorPastMatch(matchIndex, q) == matchIndex + Len(q)

NextCursor(matchIndex, q) == matchIndex + 1

HasGroup(resultsMap, fileId) == \E g \in 1..Len(resultsMap) : resultsMap[g].fileId = fileId

\* resultsMap.get(file.id)!.matches.push(match), after the group is made if needed
PushMatch(resultsMap, fileId, match) ==
  LET withGroup == IF HasGroup(resultsMap, fileId) THEN resultsMap
                   ELSE Append(resultsMap, [fileId |-> fileId, matches |-> <<>>])
  IN  [g \in 1..Len(withGroup) |->
         IF withGroup[g].fileId = fileId
         THEN [withGroup[g] EXCEPT !.matches = Append(@, match)]
         ELSE withGroup[g]]

RECURSIVE MatchLoop(_, _, _, _)
\* the while loop over the occurrences in one page
MatchLoop(page, normalizedQuery, matchIndex, resultsMap) ==
  IF matchIndex = 0 - 1 THEN resultsMap
  ELSE MatchLoop(page, normalizedQuery,
                 IndexOf(ToLowerCase(page.text), normalizedQuery,
                         NextCursor(matchIndex, normalizedQuery)),
                 PushMatch(resultsMap, page.fileId,
                           [pageId |-> page.id, pageNumber |-> page.pageNumber,
                            text |-> page.text, matchIndex |-> matchIndex,
                            snippet |-> GetSnippet(page.text, matchIndex, Len(normalizedQuery))]))

RECURSIVE PageLoop(_, _, _)
\* the for loop over the pages: a page whose file is not in files is skipped, a
\* page whose text extraction throws is logged and adds nothing
PageLoop(pgs, normalizedQuery, resultsMap) ==
  IF pgs = <<>> THEN resultsMap
  ELSE PageLoop(Tail(pgs), normalizedQuery,
                IF Head(pgs).status = "ok"
                THEN MatchLoop(Head(pgs), normalizedQuery,
                               IndexOf(ToLowerCase(Head(pgs).text), normalizedQuery, 0),
                               resultsMap)
                ELSE resultsMap)

SearchWorkspace(query, pgs) ==
  IF Trim(query) = <<>> THEN <<>> ELSE PageLoop(pgs, ToLowerCase(query), <<>>)

RECURSIVE ProgressLoop(_, _, _, _)
\* the same loop, seen from onProgress: a page whose file is not in files leaves
\* the loop body at its first line; every other page, its text searched or its
\* extraction caught, is counted and reported
ProgressLoop(pgs, total, processedCount, reported) ==
  IF pgs = <<>> THEN reported
  ELSE IF Head(pgs).status = "nofile"
  THEN ProgressLoop(Tail(pgs), total, processedCount, reported)
  ELSE ProgressLoop(Tail(pgs), total, processedCount + 1,
                    Append(reported, [processed |-> processedCount + 1, total |-> total]))

OnProgressCalls(query, pgs) ==
  IF Trim(query) = <<>> THEN <<>> ELSE ProgressLoop(pgs, Len(pgs), 0, <<>>)

\* ---- the inputs of a search
TextChars == {"A", "b"}

QueryChars == {"a", "B", " "}

Strings(chars, maxLen) == UNION {[1..n -> chars] : n \in 0..maxLen}

\* what getPageText gives for a page: its text, or nothing because the page's file
\* is not in files, or because the extraction throws
PageTexts(budget) ==
  {[status |-> "ok", text |-> t] : t \in Strings(TextChars, budget)}
    \cup {[status |-> "nofile", text |-> <<>>], [status |-> "throws", text |-> <<>>]}

\* the k-th page of the workspace searched: pages of two documents, alternating,
\* whose page numbers differ from their positions
SearchPageAt(k, pt) ==
  [id |-> k, fileId |-> 2 - (k % 2), pageIndex |-> (k % 2) + 2 * ((k - 1) \div 2),
   pageNumber |-> (k % 2) + 2 * ((k - 1) \div 2) + 1, status |-> pt.status, text |-> pt.text]

RECURSIVE SearchPageSeqs(_, _, _)
\* the sequences of n pages from position k on whose texts have at most budget
\* characters in all
SearchPageSeqs(k, n, budget) ==
  IF n = 0 THEN {<<>>}
  ELSE UNION {{<<SearchPageAt(k, pt)>> \o rest :
                 rest \in SearchPageSeqs(k + 1, n - 1, budget - Len(pt.text))} :
              pt \in PageTexts(budget)}

InitSearch ==
  /\ StoreInit
  /\ CacheInit
  /\ ParseInit
  /\ RenderInit
  /\ ExportInit
  /\ AppInit
  /\ searchQuery \in Strings(QueryChars, MaxQueryLen)
  /\ searchPages \in UNION {SearchPageSeqs(1, n, MaxTotalLen) : n \in 0..MaxSearchPages}
  /\ searchResult = <<>>
  /\ searchPc = "ready"
  /\ progressCalls = <<>>

CallSearchWorkspace ==
  /\ searchPc = "ready"
  /\ searchResult' = SearchWorkspace(searchQuery, searchPages)
  /\ progressCalls' = OnProgressCalls(searchQuery, searchPages)
  /\ searchPc' = "done"
  /\ UNCHANGED <<searchQuery, searchPages, storeVars, ghostVars, cacheVars, parseVars,
                 renderVars, exportVars, appVars>>

NextSearch == CallSearchWorkspace

SpecSearch == InitSearch /\ [][NextSearch]_vars

\* ------------------------------------------------------------ parsePageRange
\* The characters of the inputs: three digits, the two separators, a blank and a
\* letter (anything that is neither a digit nor a separator).
Chars == {"0", "1", "2", ",", "-", " ", "x"}

DigitChars == {"0", "1", "2"}

DigitOf(c) == CASE c = "0" -> 0 [] c = "1" -> 1 [] c = "2" -> 2

\* the number NaN, which no parseInt of these inputs returns otherwise
NaN == 0 - 1

\* input.replace(/\s+/g, '')
StripWhitespace(str) == LET Keep(c) == c # " " IN SelectSeq(str, Keep)

RECURSIVE Split(_, _)
\* String.prototype.split(sep): the pieces between the separators, empty ones kept
Split(str, sep) ==
  IF \A i \in 1..Len(str) : str[i] # sep THEN <<str>>
  ELSE LET k == CHOOSE i \in 1..Len(str) :
                  str[i] = sep /\ \A j \in 1..(i - 1) : str[j] # sep
       IN  <<SubSeq(str, 1, k - 1)>> \o Split(SubSeq(str, k + 1, Len(str)), sep)

RECURSIVE DigitPrefixValue(_, _)
DigitPrefixValue(str, acc) ==
  IF str = <<>> \/ Head(str) \notin DigitChars THEN acc
  ELSE DigitPrefixValue(Tail(str), acc * 10 + DigitOf(Head(str)))

\* parseInt(str, 10) of a string without blanks or signs: the value of the longest
\* prefix of digits, NaN when the string does not start with a digit
ParseInt(str) ==
  IF str = <<>> \/ Head(str) \notin DigitChars THEN NaN ELSE DigitPrefixValue(str, 0)

\* a loop from start to end as written, without the swap of a reversed pair
RangeIndicesNoSwap(start, end, maxP) ==
  {i - 1 : i \in Max2(1, start)..Min2(maxP, end)}

\* the indices the loop over one pair adds
RangeIndices(start, end, maxP) ==
  LET lower == Max2(1, Min2(start, end))
      upper == Min2(maxP, Max2(start, end))
  IN  {i - 1 : i \in lower..upper}

\* the indices one part adds
PartIndices(part, maxP) ==
  IF \E i \in 1..Len(part) : part[i] = "-"
  THEN LET pieces == Split(part, "-")
           start == ParseInt(pieces[1])
           end == ParseInt(pieces[2])
       IN  IF start # NaN /\ end # NaN THEN RangeIndices(start, end, maxP) ELSE {}
  ELSE LET pageNum == ParseInt(part)
       IN  IF pageNum # NaN /\ pageNum >= 1 /\ pageNum <= maxP THEN {pageNum - 1} ELSE {}

RECURSIVE SortAscending(_)
\* Array.from(indices).sort((a, b) => a - b)
SortAscending(set) ==
  IF set = {} THEN <<>>
  ELSE LET m == CHOOSE x \in set : \A y \in set : x <= y
       IN  <<m>> \o SortAscending(set \ {m})

ParsePageRange(str, maxP) ==
  LET cleanInput == StripWhitespace(str)
  IN  IF cleanInput = <<>> THEN <<>>
      ELSE LET parts == Split(cleanInput, ",")
           IN  SortAscending(UNION {PartIndices(parts[k], maxP) : k \in 1..Len(parts)})

ParseInputs == UNION {[1..n -> Chars] : n \in 0..MaxLen}

InitParse ==
  /\ StoreInit
  /\ CacheInit
  /\ ServiceInit
  /\ AppInit
  /\ input \in ParseInputs
  /\ maxPages \in 0..MaxPagesArg
  /\ result = <<>>
  /\ parsePc = "ready"

CallParsePageRange ==
  /\ parsePc = "ready"
  /\ result' = ParsePageRange(input, maxPages)
  /\ parsePc' = "done"
  /\ UNCHANGED <<input, maxPages, storeVars, ghostVars, cacheVars, serviceVars, appVars>>

NextParse == CallParsePageRange

SpecParse == InitParse /\ [][NextParse]_vars

\* ------------------------------------------------- mergePages, splitWorkspace
\* copiedPage.getRotation().angle: the rotation a source page carries in its file
SourceAngle(fileId, pageIndex) == IF fileId = 2 THEN 270 ELSE 0

\* copyPages(sourceDoc, [page.pageIndex]) and the additive rotation
CopiedPage(page) ==
  [fileId |-> page.fileId, pageIndex |-> page.pageIndex,
   rotation |-> IF page.rotation # 0
                THEN JsRem(SourceAngle(page.fileId, page.pageIndex) + page.rotation, 360)
                ELSE SourceAngle(page.fileId, page.pageIndex)]

\* new Error(text), with the document id the text is built from (0: none)
Thrown(text, id, loaded) ==
  [thrown |-> TRUE, message |-> [text |-> text, id |-> id], loaded |-> loaded]

RECURSIVE MergeLoop(_, _, _, _)
\* the for loop of mergePages
MergeLoop(pgs, fm, loadedDocs, mergedPdf) ==
  IF pgs = <<>> THEN [thrown |-> FALSE, bytes |-> mergedPdf, loaded |-> loadedDocs]
  ELSE IF Head(pgs).fileId \notin fm
       THEN Thrown("Source file for page not found: ", Head(pgs).fileId, loadedDocs)
       ELSE MergeLoop(Tail(pgs), fm, loadedDocs \cup {Head(pgs).fileId},
                      Append(mergedPdf, CopiedPage(Head(pgs))))

\* catch (error) { throw new Error("Failed to merge pages. ...") }
MergeCatch(outcome) ==
  IF outcome.thrown
  THEN Thrown("Failed to merge pages. Files might be corrupted.", 0, outcome.loaded)
  ELSE outcome

MergePages(pgs, fm) ==
  IF Len(pgs) = 0 THEN Thrown("No pages to merge", 0, {})
  ELSE MergeCatch(MergeLoop(pgs, fm, {}, <<>>))

\* ranges of extract_all: each page on its own
ExtractAllRanges(totalPages) == [i \in 1..totalPages |-> <<i - 1>>]

RECURSIVE FixedNumberRanges(_, _, _)
\* ranges of fixed_number from index i on: chunks of count consecutive indices
FixedNumberRanges(i, count, totalPages) ==
  IF i >= totalPages THEN <<>>
  ELSE <<[j \in 1..Min2(count, totalPages - i) |-> i + j - 1]>>
         \o FixedNumberRanges(i + count, count, totalPages)

SplitRanges(cfg, totalPages) ==
  CASE cfg.mode = "extract_all" -> ExtractAllRanges(totalPages)
    [] cfg.mode = "fixed_number" ->
         FixedNumberRanges(0, Max2(1, cfg.fixedCount), totalPages)
    [] cfg.mode = "by_range" -> <<ParsePageRange(cfg.rangeInput, totalPages)>>

RECURSIVE SubDocPages(_, _, _)
\* the inner loop: the pages of one output; a page whose file is not in the map
\* is skipped
SubDocPages(pageIndices, pgs, fm) ==
  IF pageIndices = <<>> THEN <<>>
  ELSE (IF pgs[Head(pageIndices) + 1].fileId \in fm
        THEN <<CopiedPage(pgs[Head(pageIndices) + 1])>>
        ELSE <<>>)
         \o SubDocPages(Tail(pageIndices), pgs, fm)

\* `${baseName}${suffix}.pdf`
OutputName(cfg, pageIndices, i) ==
  CASE cfg.mode = "extract_all" ->
         [base |-> "split_document", suffix |-> "_page_", number |-> pageIndices[1] + 1]
    [] cfg.mode = "fixed_number" ->
         [base |-> "split_document", suffix |-> "_part_", number |-> i]
    [] OTHER -> [base |-> "split_document", suffix |-> "_custom", number |-> 0]

RECURSIVE ResultBlobs(_, _, _, _, _)
\* the outer loop over ranges[i..]
ResultBlobs(ranges, i, pgs, fm, cfg) ==
  IF i > Len(ranges) THEN <<>>
  ELSE (IF ranges[i] = <<>> THEN <<>>
        ELSE <<[name |-> OutputName(cfg, ranges[i], i),
                pages |-> SubDocPages(ranges[i], pgs, fm)]>>)
         \o ResultBlobs(ranges, i + 1, pgs, fm, cfg)

RECURSIVE ZipFiles(_, _)
\* zip.file(name, blob) for each item: a name already in the archive is overwritten
ZipFiles(items, zip) ==
  IF items = <<>> THEN zip
  ELSE ZipFiles(Tail(items),
                IF \E k \in 1..Len(zip) : zip[k].name = Head(items).name
                THEN [k \in 1..Len(zip) |->
                        IF zip[k].name = Head(items).name THEN Head(items) ELSE zip[k]]
                ELSE Append(zip, Head(items)))

SplitWorkspace(pgs, fm, cfg) ==
  IF Len(pgs) = 0 THEN Thrown("Workspace is empty.", 0, {})
  ELSE IF cfg.mode = "by_range" /\ ParsePageRange(cfg.rangeInput, Len(pgs)) = <<>>
  THEN Thrown("Invalid page range specified.", 0, {})
  ELSE LET resultBlobs == ResultBlobs(SplitRanges(cfg, Len(pgs)), 1, pgs, fm, cfg)
       IN  IF Len(resultBlobs) = 0
           THEN Thrown("No pages resulted from the split operation.", 0, {})
           ELSE IF Len(resultBlobs) = 1
           THEN [thrown |-> FALSE, outputs |-> resultBlobs, isZip |-> FALSE,
                 filename |-> resultBlobs[1].name, zip |-> <<>>]
           ELSE [thrown |-> FALSE, outputs |-> resultBlobs, isZip |-> TRUE,
                 filename |-> [base |-> "pdfyantra_split_files", suffix |-> ".zip", number |-> 0],
                 zip |-> ZipFiles(resultBlobs, <<>>)]

\* ---- the inputs of an export
ExportFileIds == {1, 2}

ExportPageUniverse ==
  {[fileId |-> f, pageIndex |-> i, pageNumber |-> i + 1, rotation |-> rot] :
     f \in ExportFileIds, i \in {0, 1}, rot \in {0, 90}}

RangeInputs == {<<>>, <<"2">>, <<"2", "-", "1">>}

SplitConfigs ==
  {[mode |-> "extract_all", fixedCount |-> 1, rangeInput |-> <<>>]}
    \cup {[mode |-> "fixed_number", fixedCount |-> n, rangeInput |-> <<>>] : n \in 0..MaxFixedCount}
    \cup {[mode |-> "by_range", fixedCount |-> 1, rangeInput |-> ri] : ri \in RangeInputs}

InitExport ==
  /\ StoreInit
  /\ CacheInit
  /\ ParseInit
  /\ RenderInit
  /\ SearchInit
  /\ AppInit
  /\ exportPages \in UNION {[1..n -> ExportPageUniverse] : n \in 0..MaxExportPages}
  /\ fileMap \in SUBSET ExportFileIds
  /\ config \in SplitConfigs
  /\ exportResult = [thrown |-> FALSE]
  /\ exportPc = "ready"

ExportFrame ==
  UNCHANGED <<exportPages, fileMap, config, storeVars, ghostVars, cacheVars, parseVars,
              renderVars, searchVars, appVars>>

CallMergePages ==
  /\ exportPc = "ready"
  /\ exportResult' = MergePages(exportPages, fileMap)
  /\ exportPc' = "merged"
  /\ ExportFrame

CallSplitWorkspace ==
  /\ exportPc = "ready"
  /\ exportResult' = SplitWorkspace(exportPages, fileMap, config)
  /\ exportPc' = "split"
  /\ ExportFrame

NextExport == CallMergePages \/ CallSplitWorkspace

SpecExport == InitExport /\ [][NextExport]_vars

\* ------------------------------------------- the asynchronous flows of the store
\* SpecFlow: the store's calls that suspend (replaceFileContent, performSearch) and
\* the renders that go through the document cache, interleaved at their awaits
\* with each other and with addFilesAndPages, removeFile and clearWorkspace.
\* A content version stands for one blob: a file is added with version 0 and every
\* replaceFileContent brings a version never seen before.
flowCache == <<docCache, destroyed, nextHandle, renders, parsedFrom, renderFrom>>

flowSearch == <<textCache, searchDocCache, searches, searchState>>

FlowFrame ==
  UNCHANGED <<ghostVars, calls, cacheLast, parseVars, searchVars, exportVars, passwordVars,
              statusVars, objectVars>>

\* present and cached are history fields: the document was in files, and the
\* entries the document cache held, before the step.
FlowNote(op, f) ==
  /\ flowLast' = [op |-> op, fileId |-> f, present |-> f \in DOMAIN files,
                  cached |-> docCache]
  /\ FlowFrame

\* A call that waits for a promise that is already resolved ("hit", "return" below)
\* goes on before any event, timer or worker message is handled.
Settled == \A c \in 1..MaxSearches : searches[c].pc \notin {"hit", "return"}

\* a call is made (from an event or a timer)
Started == Settled /\ flowOps < MaxFlowOps /\ flowOps' = flowOps + 1

\* a call goes on after file, worker or canvas work it waited for
Continued == Settled /\ UNCHANGED flowOps

\* a call goes on after a promise that was already resolved
Resumed == UNCHANGED flowOps

\* clearSearchCache
ClearSearchCache ==
  /\ textCache' = {}
  /\ searchDocCache' = {}

\* replaceFileContent up to its await of generateThumbnails: an absent document
\* ends the call; otherwise the history is pushed and the new UploadedFile is built
ReplaceFileContentStart(c, d) ==
  /\ replaces[c].pc = "idle"
  /\ \A k \in 1..(c - 1) : replaces[k].pc # "idle"
  /\ IF d \notin DOMAIN files
     THEN UNCHANGED <<storeVars, replaces, nextVersion>>
     ELSE /\ nextVersion <= MaxVersions
          /\ past' = PastAfterPush
          /\ future' = FutureAfterPush
          /\ replaces' = [replaces EXCEPT ![c] = [pc |-> "thumbs", fileId |-> d,
                                                  version |-> nextVersion]]
          /\ nextVersion' = nextVersion + 1
          /\ UNCHANGED <<files, pages, selectedPageIds, isHistoryLocked, nextFileId,
                         nextPageId>>

\* the pages of the store with the thumbnails of the first n pages of document d
\* taken from the new content
PagesWithNewThumbnails(d, n, version) ==
  [i \in 1..Len(pages) |->
     IF pages[i].fileId = d /\ pages[i].pageIndex < n
     THEN [pages[i] EXCEPT !.thumbnailUrl = <<d, pages[i].pageIndex, version>>]
     ELSE pages[i]]

\* the thumbnails of the n pages of the new content are there: the search caches
\* are cleared, the new file is set under its id and the thumbnails are swapped
ReplaceFileContentFinish(c, n) ==
  /\ replaces[c].pc = "thumbs"
  /\ ClearSearchCache
  /\ files' = [f \in DOMAIN files \cup {replaces[c].fileId} |->
                 IF f = replaces[c].fileId THEN replaces[c].version ELSE files[f]]
  /\ pages' = PagesWithNewThumbnails(replaces[c].fileId, n, replaces[c].version)
  /\ replaces' = [replaces EXCEPT ![c] = IdleReplace]
  /\ UNCHANGED <<selectedPageIds, past, future, isHistoryLocked, nextFileId, nextPageId,
                 nextVersion>>

\* generateThumbnails rejects: the call ends there
ReplaceFileContentThrows(c) ==
  /\ replaces[c].pc = "thumbs"
  /\ replaces' = [replaces EXCEPT ![c] = IdleReplace]
  /\ UNCHANGED <<storeVars, nextVersion, textCache, searchDocCache>>

\* clearWorkspace with the caches it clears
ClearWorkspaceAndCaches ==
  /\ ClearWorkspace
  /\ ClearSearchCache

\* renderPageHighRes is handed the UploadedFile the store holds for f
FlowRenderStart(r, f) ==
  /\ f \in DOMAIN files
  /\ RenderStart(r, f)
  /\ renderFrom' = [renderFrom EXCEPT ![r] = files[f]]
  /\ UNCHANGED parsedFrom

FlowRenderParsed(r) ==
  /\ RenderParsed(r)
  /\ parsedFrom' = Append(parsedFrom, renderFrom[r])
  /\ UNCHANGED renderFrom

\* ---- performSearch, searchWorkspace and getPageText, step by step
\* A call holds the files and the pages it read from the store when it started
\* (files, pages), the page it is at (k), what getPageText gave for the pages before
\* (texts) and the content version its current text comes from (from).  It waits
\*   "hit"    for a text that was in textCache,
\*   "doc"    for file.file.arrayBuffer() and the parse of the document,
\*   "text"   for pdf.getPage and page.getTextContent,
\*   "return" for searchWorkspace to hand its results to performSearch.
\* Awaits between which no shared state is read or written are one step.
\* issued and resultsOf, and seq in a call, are history fields: the number of
\* performSearch calls so far, and the number of the call searchResults came from.
FlowQueries == {<<"a">>, <<"b">>, <<" ">>}

\* the text of every page of a content version
ContentText(version) == IF version = 0 THEN <<"A", "b">> ELSE <<"b">>

TextCacheAt(tc, f, i) == {e \in tc : e.fileId = f /\ e.pageIndex = i}

\* Map.prototype.set on textCache
TextCacheSet(tc, f, i, version) ==
  (tc \ TextCacheAt(tc, f, i)) \cup {[fileId |-> f, pageIndex |-> i, version |-> version]}

SearchDocAt(sdc, f) == {e \in sdc : e.fileId = f}

SearchDocSet(sdc, f, version) ==
  (sdc \ SearchDocAt(sdc, f)) \cup {[fileId |-> f, version |-> version]}

RECURSIVE EnterPage(_, _, _)
\* the loop of searchWorkspace from page k up to its next await: pages whose file
\* is not in files are passed over; getPageText returns the cached text, or waits
\* for the document, or (the document being cached) for the page
EnterPage(sr, tc, sdc) ==
  IF sr.k > Len(sr.pages) THEN [sr EXCEPT !.pc = "return"]
  ELSE LET page == sr.pages[sr.k]
           hit == TextCacheAt(tc, page.fileId, page.pageIndex)
           doc == SearchDocAt(sdc, page.fileId)
       IN  IF page.fileId \notin DOMAIN sr.files
           THEN EnterPage([sr EXCEPT !.k = @ + 1,
                                     !.texts = Append(@, [status |-> "nofile", text |-> <<>>])],
                          tc, sdc)
           ELSE IF hit # {}
           THEN [sr EXCEPT !.pc = "hit", !.from = (CHOOSE e \in hit : TRUE).version]
           ELSE IF doc # {}
           THEN [sr EXCEPT !.pc = "text", !.from = (CHOOSE e \in doc : TRUE).version]
           ELSE [sr EXCEPT !.pc = "doc", !.from = sr.files[page.fileId]]

\* the call with the text of page k taken in, at its next await
AfterPage(sr, outcome, tc, sdc) ==
  EnterPage([sr EXCEPT !.k = @ + 1,
                       !.texts = Append(@, [status |-> outcome,
                                            text |-> IF outcome = "ok" THEN ContentText(sr.from)
                                                     ELSE <<>>])],
            tc, sdc)

\* performSearch up to its first await
PerformSearchStart(c, q) ==
  /\ searches[c].pc = "idle"
  /\ \A k \in 1..(c - 1) : searches[k].pc # "idle"
  /\ IF Trim(q) = <<>>
     THEN /\ searchState' = [searchQuery |-> q, searchResults |-> <<>>, isSearching |-> FALSE,
                             issued |-> searchState.issued + 1,
                             resultsOf |-> searchState.issued + 1]
          /\ UNCHANGED searches
     ELSE /\ searchState' = [searchState EXCEPT !.searchQuery = q, !.isSearching = TRUE,
                                                !.issued = @ + 1]
          /\ searches' = [searches EXCEPT ![c] =
                            EnterPage([pc |-> "idle", seq |-> searchState.issued + 1,
                                       query |-> q, files |-> files, pages |-> pages,
                                       k |-> 1, texts |-> <<>>, from |-> 0],
                                      textCache, searchDocCache)]
  /\ UNCHANGED <<textCache, searchDocCache>>

\* getPageText: the cached text is handed back
SearchCacheHit(c) ==
  /\ searches[c].pc = "hit"
  /\ searches' = [searches EXCEPT ![c] = AfterPage(searches[c], "ok", textCache, searchDocCache)]
  /\ UNCHANGED <<textCache, searchDocCache, searchState>>

\* getPageText: the document is parsed and put into the search's document cache
SearchDocLoaded(c) ==
  /\ searches[c].pc = "doc"
  /\ searchDocCache' = SearchDocSet(searchDocCache, searches[c].pages[searches[c].k].fileId,
                                    searches[c].from)
  /\ searches' = [searches EXCEPT ![c].pc = "text"]
  /\ UNCHANGED <<textCache, searchState>>

\* getPageText: the text is extracted, put into textCache and returned
SearchTextExtracted(c) ==
  /\ searches[c].pc = "text"
  /\ textCache' = TextCacheSet(textCache, searches[c].pages[searches[c].k].fileId,
                               searches[c].pages[searches[c].k].pageIndex, searches[c].from)
  /\ searches' = [searches EXCEPT ![c] = AfterPage(searches[c], "ok", textCache', searchDocCache)]
  /\ UNCHANGED <<searchDocCache, searchState>>

\* getPageText rejects: searchWorkspace logs the error and goes on
SearchTextThrows(c) ==
  /\ searches[c].pc \in {"doc", "text"}
  /\ searches' = [searches EXCEPT ![c] =
                    AfterPage(searches[c], "throws", textCache, searchDocCache)]
  /\ UNCHANGED <<textCache, searchDocCache, searchState>>

\* the pages as searchWorkspace saw them
ResultPages(sr) ==
  [i \in 1..Len(sr.pages) |->
     [id |-> sr.pages[i].id, fileId |-> sr.pages[i].fileId,
      pageIndex |-> sr.pages[i].pageIndex, pageNumber |-> sr.pages[i].pageNumber,
      status |-> sr.texts[i].status, text |-> sr.texts[i].text]]

\* searchWorkspace has returned: performSearch sets the results
PerformSearchDone(c) ==
  /\ searches[c].pc = "return"
  /\ searchState' = [searchState EXCEPT
                       !.searchResults = SearchWorkspace(searches[c].query,
                                                         ResultPages(searches[c])),
                       !.isSearching = FALSE,
                       !.resultsOf = searches[c].seq]
  /\ searches' = [searches EXCEPT ![c] = IdleSearch]
  /\ UNCHANGED <<textCache, searchDocCache>>

NextFlow ==
  \/ \E n \in 1..MaxPagesPerFile :
       /\ Started
       /\ AddFilesAndPages(n)
       /\ FlowNote("addFilesAndPages", nextFileId)
       /\ UNCHANGED <<flowCache, flowSearch, replaces, nextVersion>>
  \/ \E f \in FileIdsIssued :
       /\ Started
       /\ RemoveFile(f)
       /\ FlowNote("removeFile", f)
       /\ UNCHANGED <<flowCache, flowSearch, replaces, nextVersion>>
  \/ /\ Started
     /\ ClearWorkspaceAndCaches
     /\ FlowNote("clearWorkspace", 0)
     /\ UNCHANGED <<flowCache, searches, searchState, replaces, nextVersion>>
  \/ \E c \in 1..MaxReplaces, d \in FileIdsIssued :
       /\ Started
       /\ ReplaceFileContentStart(c, d)
       /\ FlowNote("replaceFileContent", d)
       /\ UNCHANGED <<flowCache, flowSearch>>
  \/ \E c \in 1..MaxReplaces, n \in 1..MaxPagesPerFile :
       /\ Continued
       /\ ReplaceFileContentFinish(c, n)
       /\ FlowNote("replaceFileContentDone", replaces[c].fileId)
       /\ UNCHANGED <<flowCache, searches, searchState>>
  \/ \E c \in 1..MaxReplaces :
       /\ Continued
       /\ ReplaceFileContentThrows(c)
       /\ FlowNote("replaceFileContentThrown", replaces[c].fileId)
       /\ UNCHANGED <<flowCache, searches, searchState>>
  \/ \E r \in 1..MaxRenders, f \in FileIdsIssued :
       /\ Started
       /\ FlowRenderStart(r, f)
       /\ FlowNote("render", f)
       /\ UNCHANGED <<storeVars, flowSearch, replaces, nextVersion>>
  \/ \E r \in 1..MaxRenders :
       /\ Continued
       /\ RenderRead(r)
       /\ FlowNote("renderStep", renders[r].file)
       /\ UNCHANGED <<storeVars, flowSearch, replaces, nextVersion, parsedFrom, renderFrom>>
  \/ \E r \in 1..MaxRenders :
       /\ Continued
       /\ FlowRenderParsed(r)
       /\ FlowNote("renderStep", renders[r].file)
       /\ UNCHANGED <<storeVars, flowSearch, replaces, nextVersion>>
  \/ \E r \in 1..MaxRenders :
       /\ Continued
       /\ RenderGotPage(r)
       /\ FlowNote("renderStep", renders[r].file)
       /\ UNCHANGED <<storeVars, flowSearch, replaces, nextVersion, parsedFrom, renderFrom>>
  \/ \E r \in 1..MaxRenders :
       /\ Continued
       /\ RenderDone(r)
       /\ FlowNote("renderStep", renders[r].file)
       /\ UNCHANGED <<storeVars, flowSearch, replaces, nextVersion, parsedFrom, renderFrom>>

  \/ \E c \in 1..MaxSearches, q \in FlowQueries :
       /\ Started
       /\ PerformSearchStart(c, q)
       /\ FlowNote("performSearch", 0)
       /\ UNCHANGED <<storeVars, flowCache, replaces, nextVersion>>
  \/ \E c \in 1..MaxSearches :
       /\ Resumed
       /\ SearchCacheHit(c)
       /\ FlowNote("searchStep", 0)
       /\ UNCHANGED <<storeVars, flowCache, replaces, nextVersion>>
  \/ \E c \in 1..MaxSearches :
       /\ Continued
       /\ SearchDocLoaded(c)
       /\ FlowNote("searchStep", 0)
       /\ UNCHANGED <<storeVars, flowCache, replaces, nextVersion>>
  \/ \E c \in 1..MaxSearches :
       /\ Continued
       /\ SearchTextExtracted(c)
       /\ FlowNote("searchStep", 0)
       /\ UNCHANGED <<storeVars, flowCache, replaces, nextVersion>>
  \/ \E c \in 1..MaxSearches :
       /\ Continued
       /\ SearchTextThrows(c)
       /\ FlowNote("searchStep", 0)
       /\ UNCHANGED <<storeVars, flowCache, replaces, nextVersion>>
  \/ \E c \in 1..MaxSearches :
       /\ Resumed
       /\ PerformSearchDone(c)
       /\ FlowNote("performSearchDone", 0)
       /\ UNCHANGED <<storeVars, flowCache, replaces, nextVersion>>

SpecFlow == Init /\ [][NextFlow]_vars


\* ------------------------------------------------- processFileWithPassword
\* The file is a plain PDF, a PDF encrypted with the password Secret, or a file
\* pdf-lib cannot load for another reason.  The user answers a prompt with a
\* password (the empty string included) or cancels it (null).
Secret == <<"p">>

PasswordAnswers == {<<>>, <<"x">>, Secret}

FileKinds == {"plain", "encrypted", "broken"}

\* JavaScript's truthiness of password?: string
Truthy(password) == password.given /\ password.text # <<>>

\* unlockPdfFile(file, password); fails: the rasterization of the unlocked
\* document throws
UnlockPdfFile(kind, password, fails) ==
  CASE kind = "plain" ->
         [outcome |-> "success", needsPassword |-> FALSE, wrongPassword |-> FALSE]
    [] kind = "broken" ->
         [outcome |-> "throws", needsPassword |-> FALSE, wrongPassword |-> FALSE]
    [] OTHER ->
         IF password.given /\ password.text = Secret
         THEN [outcome |-> IF fails THEN "throws" ELSE "success",
               needsPassword |-> FALSE, wrongPassword |-> FALSE]
         ELSE [outcome |-> "password", needsPassword |-> ~Truthy(password),
               wrongPassword |-> Truthy(password)]

\* afterRejected is a history field: the prompt follows the rejection of a password
\* the user supplied.
LoopUnlock(fails) ==
  /\ pwPc = "unlock"
  /\ LET unlocked == UnlockPdfFile(pwFile, currentPassword, fails)
     IN  /\ pwLast' = [pwLast EXCEPT !.unlock = unlocked.outcome]
         /\ CASE unlocked.outcome = "success" ->
                   /\ pwPc' = "returned"
                   /\ pwResult' = "file"
                   /\ UNCHANGED prompts
              [] unlocked.outcome = "password" ->
                   /\ Len(prompts) < MaxPrompts
                   /\ pwPc' = "prompt"
                   /\ prompts' = Append(prompts, [isRetry |-> unlocked.wrongPassword,
                                                  afterRejected |-> currentPassword.given])
                   /\ UNCHANGED pwResult
              [] OTHER ->
                   /\ pwPc' = "thrown"
                   /\ UNCHANGED <<pwResult, prompts>>
  /\ UNCHANGED <<pwFile, currentPassword>>

\* the prompt is answered with a password
LoopAnswer(pwd) ==
  /\ pwPc = "prompt"
  /\ currentPassword' = [given |-> TRUE, text |-> pwd]
  /\ pwPc' = "unlock"
  /\ pwLast' = [pwLast EXCEPT !.cancelled = FALSE]
  /\ UNCHANGED <<pwFile, pwResult, prompts>>

\* the prompt is cancelled: it resolves to null
LoopCancel ==
  /\ pwPc = "prompt"
  /\ pwPc' = "returned"
  /\ pwResult' = "null"
  /\ pwLast' = [pwLast EXCEPT !.cancelled = TRUE]
  /\ UNCHANGED <<pwFile, currentPassword, prompts>>

InitPassword ==
  /\ StoreInit
  /\ CacheInit
  /\ ParseInit
  /\ ServiceInit
  /\ FlowInit
  /\ StatusInit
  /\ ObjectInit
  /\ pwFile \in FileKinds
  /\ currentPassword = Undefined
  /\ pwPc = "unlock"
  /\ pwResult = "none"
  /\ prompts = <<>>
  /\ pwLast = [unlock |-> "none", cancelled |-> FALSE]

PasswordFrame ==
  UNCHANGED <<storeVars, ghostVars, cacheVars, parseVars, serviceVars, flowVars, statusVars,
              objectVars>>

NextPassword ==
  \/ \E fails \in BOOLEAN : LoopUnlock(fails) /\ PasswordFrame
  \/ \E pwd \in PasswordAnswers : LoopAnswer(pwd) /\ PasswordFrame
  \/ LoopCancel /\ PasswordFrame

SpecPassword == InitPassword /\ [][NextPassword]_vars

\* ------------------------------------------------- status and errorMessage
\* SpecStatus: the store's status and errorMessage under the handlers of the tools.
\* A handler runs from the event that starts it to its first await (or timer) in
\* one step; the operation it started then succeeds or throws in a later step.
Now == [status |-> status, errorMessage |-> errorMessage]

\* setStatus: (status) => set({ status })
SetStatus(newStatus, st) == [st EXCEPT !.status = newStatus]

\* setError: (errorMessage) => set({ errorMessage, status: AppStatus.ERROR })
SetError(message, st) == [status |-> "error", errorMessage |-> message]

\* resetProcessing, setActiveTool, clearWorkspace: status IDLE, errorMessage null
Reset(st) == [status |-> "idle", errorMessage |-> NoMessage]

\* addFilesAndPages: status SUCCESS goes back to IDLE
StatusAfterAdd(st) == [st EXCEPT !.status = IF st.status = "success" THEN "idle" ELSE st.status]

Apply(st) ==
  /\ status' = st.status
  /\ errorMessage' = st.errorMessage

\* the messages setError is called with: a literal of the component, err.message
ErrorMessages == {<<"Failed to load">>, <<"err.message">>}

JobKinds == {"split", "compress", "merge", "import"}

\* handleExecuteSplit, handleCompress, handleImportFiles: setStatus(PROCESSING);
\* setError(null); then the operation.  handleMerge, handleExport:
\* setStatus(PROCESSING); then the operation.
HandleStart(kind) ==
  /\ job.pc = "idle"
  /\ Apply(IF kind = "merge" THEN SetStatus("processing", Now)
           ELSE SetError(NoMessage, SetStatus("processing", Now)))
  /\ job' = [pc |-> "running", kind |-> kind]
  /\ statusLast' = kind
  /\ UNCHANGED storeVars

\* the operation is done: setStatus(SUCCESS); handleImportFiles calls
\* addFilesAndPages and then setStatus(IDLE)
JobSucceeds(n) ==
  /\ job.pc = "running"
  /\ IF job.kind = "import"
     THEN /\ AddFilesAndPages(n)
          /\ Apply(SetStatus("idle", StatusAfterAdd(Now)))
     ELSE /\ Apply(SetStatus("success", Now))
          /\ UNCHANGED storeVars
  /\ job' = IdleJob
  /\ statusLast' = "done"

\* the operation throws: setError(err.message)
JobThrows(message) ==
  /\ job.pc = "running"
  /\ Apply(SetError(message, Now))
  /\ job' = IdleJob
  /\ statusLast' = "thrown"
  /\ UNCHANGED storeVars

\* handleFilesSelected: the new files and pages are added, or a file fails to load
FilesSelected(n) ==
  /\ AddFilesAndPages(n)
  /\ Apply(StatusAfterAdd(Now))
  /\ statusLast' = "addFilesAndPages"
  /\ UNCHANGED job

FilesSelectedFails ==
  /\ Apply(SetError(<<"Failed to load">>, Now))
  /\ statusLast' = "setError"
  /\ UNCHANGED <<storeVars, job>>

\* resetProcessing, setActiveTool(tool)
ResetProcessing ==
  /\ Apply(Reset(Now))
  /\ statusLast' = "resetProcessing"
  /\ UNCHANGED <<storeVars, job>>

\* the button of CompressTool: setStatus(AppStatus.IDLE)
DismissCompress ==
  /\ Apply(SetStatus("idle", Now))
  /\ statusLast' = "setStatus"
  /\ UNCHANGED <<storeVars, job>>

ClearWorkspaceAndStatus ==
  /\ ClearWorkspace
  /\ Apply(Reset(Now))
  /\ statusLast' = "clearWorkspace"
  /\ UNCHANGED job

StatusFrame ==
  UNCHANGED <<ghostVars, cacheVars, parseVars, serviceVars, flowVars, passwordVars,
              objectVars>>

NextStatus ==
  \/ \E kind \in JobKinds : HandleStart(kind) /\ StatusFrame
  \/ \E n \in 1..MaxPagesPerFile : JobSucceeds(n) /\ StatusFrame
  \/ \E m \in ErrorMessages : JobThrows(m) /\ StatusFrame
  \/ \E n \in 1..MaxPagesPerFile : FilesSelected(n) /\ StatusFrame
  \/ FilesSelectedFails /\ StatusFrame
  \/ ResetProcessing /\ StatusFrame
  \/ DismissCompress /\ StatusFrame
  \/ ClearWorkspaceAndStatus /\ StatusFrame

SpecStatus == Init /\ [][NextStatus]_vars

\* ----------------------------------- exports and the objects the store holds
\* SpecObjects: an export is handed the array and the Map the store holds and reads
\* them at every iteration, between its awaits, while store calls go on.  Arrays and
\* Maps are objects with an identity: a store call that returns a pages (files)
\* field makes a new array (Map) and leaves the old one as it was.  The page and
\* file objects inside are never assigned to by the store and are held by value.
\* convertFromPdf in its text format; the other formats read pages and fileMap at
\* the same places.  One replaceFileContent is under way at a time here.

\* set({ pages }) with an array written in place instead of a new one
OverwritePages ==
  /\ pageArrays' = [pageArrays EXCEPT ![pagesObj] = pages']
  /\ pagesObj' = pagesObj

\* set({ pages: [...] }): state.pages.map / filter / a new array of the caller
PublishPages ==
  /\ pageArrays' = Append(pageArrays, pages')
  /\ pagesObj' = Len(pageArrays) + 1

\* set({ files: nextFiles }) with nextFiles = new Map(state.files)
PublishFiles ==
  /\ fileMaps' = Append(fileMaps, files')
  /\ filesObj' = Len(fileMaps) + 1

RECURSIVE ConvertLoop(_, _, _)
\* the loop of the text format: getDoc(pageMeta.fileId), then the text of the page
ConvertLoop(pgs, fmap, fullText) ==
  IF pgs = <<>> THEN [thrown |-> FALSE, text |-> fullText, isZip |-> FALSE]
  ELSE IF Head(pgs).fileId \notin DOMAIN fmap THEN Thrown("File not found", 0, {})
  ELSE ConvertLoop(Tail(pgs), fmap,
                   Append(fullText, [pageNumber |-> Head(pgs).pageNumber,
                                     fileId |-> Head(pgs).fileId,
                                     version |-> fmap[Head(pgs).fileId]]))

ConvertFromPdf(pgs, fmap) == ConvertLoop(pgs, fmap, <<>>)

ExportKinds == {"merge", "split", "convert"}

\* the configurations handed to an export: splitWorkspace alone takes one
ExportConfigs(kind) ==
  IF kind = "split"
  THEN {c \in SplitConfigs : \/ c.mode = "extract_all"
                             \/ c.mode = "fixed_number" /\ c.fixedCount = 1
                             \/ c.mode = "by_range" /\ c.rangeInput # <<>>}
  ELSE {IdleExport.config}

\* what the export returns or throws for the pages and the files it has read
ExportOf(kind, pgs, fmap, cfg) ==
  CASE kind = "merge" -> MergePages(pgs, DOMAIN fmap)
    [] kind = "split" -> SplitWorkspace(pgs, DOMAIN fmap, cfg)
    [] OTHER -> ConvertFromPdf(pgs, fmap)

RECURSIVE Flatten(_)
Flatten(ranges) == IF ranges = <<>> THEN <<>> ELSE Head(ranges) \o Flatten(Tail(ranges))

\* the 0-based indices into pages the export goes through, in order
VisitOrder(kind, cfg, total) ==
  IF kind = "split" THEN Flatten(SplitRanges(cfg, total)) ELSE [i \in 1..total |-> i - 1]

SetAt(seq, idx, v) == IF idx <= Len(seq) THEN [seq EXCEPT ![idx] = v] ELSE Append(seq, v)

MapSet(fn, key, v) == [x \in DOMAIN fn \cup {key} |-> IF x = key THEN v ELSE fn[x]]

MapDrop(fn, key) == [x \in DOMAIN fn \ {key} |-> fn[x]]

\* the promise of the export settles
Finished(xr) ==
  [xr EXCEPT !.pc = "done",
              !.outcome = ExportOf(xr.kind, xr.seenPages, xr.seenFiles, xr.config)]

RECURSIVE Advance(_, _, _)
\* the loop from position k up to the next await: pages[i] and fileMap.get are read
\* now.  mergePages reads pages.length at every iteration; splitWorkspace and
\* convertFromPdf go through the indices fixed at the call.  A missing file makes
\* mergePages and convertFromPdf throw and splitWorkspace go on to the next page.
Advance(xr, arrays, maps) ==
  LET array == arrays[xr.pagesRef]
      total == IF xr.kind = "merge" THEN Len(array) ELSE Len(xr.order)
      idx == IF xr.kind = "merge" THEN xr.k ELSE xr.order[xr.k] + 1
  IN  IF xr.k > total THEN [xr EXCEPT !.pc = "saving"]
      ELSE IF idx > Len(array)
      THEN [xr EXCEPT !.pc = "done", !.outcome = Thrown("TypeError", 0, {})]
      ELSE LET page == array[idx]
               fmap == maps[xr.filesRef]
               isLoaded == page.fileId \in DOMAIN xr.loaded
               found == IF xr.kind = "convert" /\ isLoaded THEN TRUE
                        ELSE page.fileId \in DOMAIN fmap
               saw == [xr EXCEPT !.page = page, !.seenPages = SetAt(@, idx, page)]
           IN  IF ~found
               THEN IF xr.kind = "split"
                    THEN Advance([saw EXCEPT !.k = @ + 1,
                                             !.seenFiles = MapDrop(@, page.fileId)],
                                 arrays, maps)
                    ELSE Finished([saw EXCEPT !.seenFiles = MapDrop(@, page.fileId)])
               ELSE IF isLoaded
               THEN [saw EXCEPT !.pc = "copying",
                                !.seenFiles = MapSet(@, page.fileId, xr.loaded[page.fileId])]
               ELSE [saw EXCEPT !.pc = "loading",
                                !.seenFiles = MapSet(@, page.fileId, fmap[page.fileId])]

\* the export is called with the array and the Map of the store.  atCall and during
\* are history fields: the arguments as they were at the call, and the number of
\* store calls that changed the store while the export was in flight.
ExportStart(kind, cfg) ==
  /\ exportRun.pc = "idle"
  /\ LET P == pageArrays[pagesObj]
         F == fileMaps[filesObj]
         copies == kind = "convert"      \* const processList = [...pages]
         arrays == IF copies THEN Append(pageArrays, P) ELSE pageArrays
         xr == [IdleExport EXCEPT
                   !.pc = "create", !.kind = kind, !.config = cfg,
                   !.pagesRef = IF copies THEN Len(arrays) ELSE pagesObj,
                   !.filesRef = filesObj,
                   !.order = VisitOrder(kind, cfg, Len(P)), !.k = 1,
                   !.seenPages = P, !.seenFiles = F,
                   !.atCall = [pages |-> P, files |-> F]]
     IN  /\ pageArrays' = arrays
         /\ exportRun' =
              IF kind # "convert" /\ ExportOf(kind, P, F, cfg).thrown
                                  /\ (Len(P) = 0 \/ xr.order = <<>>)
              THEN Finished(xr)
              ELSE IF copies THEN Advance(xr, arrays, fileMaps)
              ELSE xr
  /\ UNCHANGED <<storeVars, fileMaps, pagesObj, filesObj>>

\* await PDFDocument.create() is over: the loop starts
ExportCreated ==
  /\ exportRun.pc = "create"
  /\ exportRun' = Advance(exportRun, pageArrays, fileMaps)
  /\ UNCHANGED <<storeVars, pageArrays, fileMaps, pagesObj, filesObj>>

\* file.file.arrayBuffer() and the parse of the document are over
ExportLoaded ==
  /\ exportRun.pc = "loading"
  /\ exportRun' = [exportRun EXCEPT
                     !.pc = "copying",
                     !.loaded = MapSet(@, exportRun.page.fileId,
                                       exportRun.seenFiles[exportRun.page.fileId])]
  /\ UNCHANGED <<storeVars, pageArrays, fileMaps, pagesObj, filesObj>>

\* the page is copied (its text is extracted): the loop goes on
ExportCopied ==
  /\ exportRun.pc = "copying"
  /\ exportRun' = Advance([exportRun EXCEPT !.k = @ + 1], pageArrays, fileMaps)
  /\ UNCHANGED <<storeVars, pageArrays, fileMaps, pagesObj, filesObj>>

\* the document is saved (the archive is generated): the export returns
ExportSaved ==
  /\ exportRun.pc = "saving"
  /\ exportRun' = Finished(exportRun)
  /\ UNCHANGED <<storeVars, pageArrays, fileMaps, pagesObj, filesObj>>

\* the lists a drag in the organizer hands to setPages here: one page taken to the
\* front or to the end
ReorderArgs == {Move(pages, i, j) : i \in 1..Len(pages), j \in {1, Len(pages)}}

ExportInFlight == exportRun.pc \notin {"idle", "done"}

\* a store call, with the objects it makes; counted says whether the call is one
\* of those the bound MaxExportOps limits (the others are limited by their guards)
StoreCall(A, newPages, newFiles, counted) ==
  /\ counted => exportOps < MaxExportOps
  /\ exportOps' = IF counted THEN exportOps + 1 ELSE exportOps
  /\ A
  /\ IF newPages THEN PublishPages ELSE UNCHANGED <<pageArrays, pagesObj>>
  /\ IF newFiles THEN PublishFiles ELSE UNCHANGED <<fileMaps, filesObj>>
  /\ exportRun' = [exportRun EXCEPT
                     !.during = IF ExportInFlight /\ storeVars' # storeVars THEN @ + 1 ELSE @]

ObjectFrame ==
  UNCHANGED <<ghostVars, cacheVars, parseVars, serviceVars, passwordVars, statusVars,
              parsedFrom, renderFrom, searches, searchState, flowLast, flowOps>>

ReplaceIdle == UNCHANGED <<replaces, nextVersion, textCache, searchDocCache>>

NextObjects ==
  \/ \E n \in 1..MaxPagesPerFile :
       StoreCall(AddFilesAndPages(n), TRUE, TRUE, TRUE) /\ ReplaceIdle /\ ObjectFrame
  \/ \E f \in FileIdsIssued :
       StoreCall(RemoveFile(f), TRUE, TRUE, TRUE) /\ ReplaceIdle /\ ObjectFrame
  \/ \E id \in PageIdsIssued :
       StoreCall(RemovePage(id), TRUE, FALSE, TRUE) /\ ReplaceIdle /\ ObjectFrame
  \/ \E np \in ReorderArgs :
       StoreCall(SetPages(np), TRUE, FALSE, TRUE) /\ ReplaceIdle /\ ObjectFrame
  \/ \E id \in PageIdsIssued, d \in Directions :
       StoreCall(RotatePage(id, d), TRUE, FALSE, TRUE) /\ ReplaceIdle /\ ObjectFrame
  \/ \E d \in FileIdsIssued :
       /\ StoreCall(ReplaceFileContentStart(1, d), FALSE, FALSE, FALSE)
       /\ UNCHANGED <<textCache, searchDocCache>>
       /\ ObjectFrame
  \/ \E n \in 1..MaxPagesPerFile :
       StoreCall(ReplaceFileContentFinish(1, n), TRUE, TRUE, TRUE) /\ ObjectFrame
  \/ \E kind \in ExportKinds : \E cfg \in ExportConfigs(kind) :
       ExportStart(kind, cfg) /\ UNCHANGED exportOps /\ ReplaceIdle /\ ObjectFrame
  \/ ExportCreated /\ UNCHANGED exportOps /\ ReplaceIdle /\ ObjectFrame
  \/ ExportLoaded /\ UNCHANGED exportOps /\ ReplaceIdle /\ ObjectFrame
  \/ ExportCopied /\ UNCHANGED exportOps /\ ReplaceIdle /\ ObjectFrame
  \/ ExportSaved /\ UNCHANGED exportOps /\ ReplaceIdle /\ ObjectFrame

SpecObjects == Init /\ [][NextObjects]_vars

\* ------------------------------------------------------------------ claims
LastOp == last.call.op

Pre == last.pre

\* C3: every page of the workspace refers to a document that is a key of files.
C3_NoDanglingPages == \A i \in 1..Len(pages) : pages[i].fileId \in DOMAIN files

\* C4: the selection is a subset of the ids of the pages in the workspace.
C4_SelectionWithinPages == selectedPageIds \subseteq Ids(pages)

IdBag(pgs, id) == Cardinality({i \in 1..Len(pgs) : pgs[i].id = id})

SameIdMultiset(a, b) == \A id \in Ids(a) \cup Ids(b) : IdBag(a, id) = IdBag(b, id)

IdSeq(pgs) == [i \in 1..Len(pgs) |-> pgs[i].id]

\* C5: setPages with a permutation of the current ids makes the id sequence equal
\* to the list given; with a list whose multiset of ids differs it changes neither
\* pages nor the history.
C5_ReorderAppliesOrRejects ==
  LastOp = "setPages" =>
    IF SameIdMultiset(last.call.list, Pre.pages)
    THEN IdSeq(pages) = IdSeq(last.call.list)
    ELSE pages = Pre.pages /\ past = Pre.past /\ future = Pre.future

\* C7: right after removeFile(d), d is no key of files, no page refers to d, the
\* other pages keep their order, and the selection has lost exactly the ids of the
\* pages removed.
C7_RemoveFileCascades ==
  LastOp = "removeFile" =>
    LET d == last.call.fileId
        Stays(p) == p.fileId # d
        Gone == {Pre.pages[i].id : i \in {j \in 1..Len(Pre.pages) : Pre.pages[j].fileId = d}}
    IN  /\ d \notin DOMAIN files
        /\ \A i \in 1..Len(pages) : pages[i].fileId # d
        /\ pages = SelectSeq(Pre.pages, Stays)
        /\ selectedPageIds \cap Gone = {}
        /\ \A id \in Pre.selectedPageIds \ Gone : id \in selectedPageIds
        /\ selectedPageIds \subseteq Pre.selectedPageIds

C7_Witness ==
  /\ LastOp = "removeFile"
  /\ \E i, j \in 1..Len(Pre.pages) :
       /\ Pre.pages[i].fileId = last.call.fileId
       /\ Pre.pages[j].fileId # last.call.fileId
       /\ Pre.pages[i].id \in Pre.selectedPageIds
       /\ Pre.pages[j].id \in Pre.selectedPageIds
  /\ selectedPageIds # {}

\* C8: duplicateSelectedPages puts one copy right after each selected page; the
\* copy has an id no page had before and the fileId, pageIndex, rotation and
\* thumbnail of its original; the pages there before keep their order; with an
\* empty selection nothing changes and no history entry is pushed.
C8_DuplicateAdjacent ==
  LastOp = "duplicateSelectedPages" =>
    LET P == Pre.pages
        Q == pages
        IsSel(i) == P[i].id \in Pre.selectedPageIds
        Pos(i) == i + Cardinality({j \in 1..(i - 1) : IsSel(j)})
    IN  IF Pre.selectedPageIds = {}
        THEN Q = P /\ past = Pre.past /\ future = Pre.future
        ELSE /\ Len(Q) = Len(P) + Cardinality({i \in 1..Len(P) : IsSel(i)})
             /\ \A i \in 1..Len(P) :
                  /\ Q[Pos(i)] = P[i]
                  /\ IsSel(i) =>
                       /\ Q[Pos(i) + 1].id \notin Ids(P)
                       /\ Q[Pos(i) + 1].fileId = P[i].fileId
                       /\ Q[Pos(i) + 1].pageIndex = P[i].pageIndex
                       /\ Q[Pos(i) + 1].rotation = P[i].rotation
                       /\ Q[Pos(i) + 1].thumbnailUrl = P[i].thumbnailUrl

C8_Witness ==
  /\ LastOp = "duplicateSelectedPages"
  /\ Len(Pre.pages) >= 2
  /\ Pre.pages[1].id \in Pre.selectedPageIds
  /\ Pre.pages[2].id \notin Pre.selectedPageIds
  /\ Pre.pages[1].rotation # 0
  /\ Len(pages) = Len(Pre.pages) + 1

\* C1: after a sequence of N <= 50 recorded mutations, N undos restore the pages
\* (ids, rotations, order) and the selection that held before the first mutation,
\* and N redos after them restore the pages and the selection that held after the
\* last mutation.
C1_UndoRedoInverse ==
  /\ (run.mode = "undo" /\ run.u = run.n /\ run.n <= HistoryCap) =>
       /\ pages = run.start.pages
       /\ selectedPageIds = run.start.selectedPageIds
  /\ (run.mode = "redo" /\ run.r = run.n /\ run.n <= HistoryCap) =>
       /\ pages = run.end.pages
       /\ selectedPageIds = run.end.selectedPageIds

C1_Witness ==
  /\ run.mode = "redo"
  /\ run.r = run.n
  /\ run.n >= 3
  /\ run.start.pages # <<>>
  /\ run.start.selectedPageIds # {}
  /\ run.end.pages # run.start.pages
  /\ run.end.selectedPageIds # run.start.selectedPageIds

\* C2: past never holds more than 50 entries, and undo changes the state at most
\* 50 times in a row.
C2_HistoryCap ==
  /\ Len(past) <= HistoryCap
  /\ undoStreak <= HistoryCap

C2_Witness ==
  /\ ops > HistoryCap
  /\ LastOp = "undo"
  /\ run.u = HistoryCap + 1
  /\ undoStreak = HistoryCap
  /\ past = <<>>
  /\ pages = Pre.pages

\* C6: the rotation of every page is its initial rotation (0) plus 90 for every
\* cw and minus 90 for every ccw applied to it, modulo 360, so one of 0, 90, 180,
\* 270; each rotate call adds its delta modulo 360 to the pages it names.
C6_RotationSum ==
  /\ \A i \in 1..Len(pages) :
       /\ pages[i].rotation \in {0, 90, 180, 270}
       /\ pages[i].rotation = (90 * pages[i].turns) % 360
  /\ LastOp \in {"rotatePage", "rotateSelectedPages"} =>
       /\ Len(pages) = Len(Pre.pages)
       /\ \A i \in 1..Len(pages) :
            LET hit == IF LastOp = "rotatePage"
                       THEN Pre.pages[i].id = last.call.pageId
                       ELSE Pre.pages[i].id \in Pre.selectedPageIds
                delta == IF last.call.direction = "cw" THEN 90 ELSE 0 - 90
            IN  pages[i].rotation =
                  IF hit THEN (Pre.pages[i].rotation + delta) % 360
                  ELSE Pre.pages[i].rotation

C6_Witness ==
  /\ LastOp \in {"rotatePage", "rotateSelectedPages"}
  /\ \E i \in 1..Len(pages) :
       /\ pages[i].turns = 4
       /\ pages[i].rotation = 0
       /\ Pre.pages[i].rotation = 270

Clean == StripWhitespace(input)

\* Clean[i..j] is a token: a maximal stretch without a comma
IsToken(i, j) ==
  /\ 1 <= i /\ i <= j /\ j <= Len(Clean)
  /\ i = 1 \/ Clean[i - 1] = ","
  /\ j = Len(Clean) \/ Clean[j + 1] = ","
  /\ \A k \in i..j : Clean[k] # ","

AllDigits(i, j) == i <= j /\ \A k \in i..j : Clean[k] \in DigitChars

RECURSIVE NumberAt(_, _)
NumberAt(i, j) == IF i > j THEN 0 ELSE NumberAt(i, j - 1) * 10 + DigitOf(Clean[j])

\* the tokens that are one number N, as <<N>>
SingleTokens ==
  {<<NumberAt(t[1], t[2])>> :
     t \in {u \in (1..Len(Clean)) \X (1..Len(Clean)) : IsToken(u[1], u[2]) /\ AllDigits(u[1], u[2])}}

\* the tokens that are a pair A-B, as <<A, B>>
PairTokens ==
  {<<NumberAt(t[1], t[3] - 1), NumberAt(t[3] + 1, t[2])>> :
     t \in {u \in (1..Len(Clean)) \X (1..Len(Clean)) \X (1..Len(Clean)) :
              /\ IsToken(u[1], u[2])
              /\ Clean[u[3]] = "-"
              /\ AllDigits(u[1], u[3] - 1)
              /\ AllDigits(u[3] + 1, u[2])}}

Clamp(x) == Max2(1, Min2(maxPages, x))

Returned == {result[k] : k \in 1..Len(result)}

C10_Shape ==
  /\ \A k \in 1..Len(result) : result[k] >= 0 /\ result[k] <= maxPages - 1
  /\ \A k \in 1..(Len(result) - 1) : result[k] < result[k + 1]
  /\ \A t \in SingleTokens : (t[1] >= 1 /\ t[1] <= maxPages) => (t[1] - 1) \in Returned
  /\ Clean = <<>> => result = <<>>
  /\ (/\ PairTokens = {}
      /\ \A t \in SingleTokens : t[1] < 1 \/ t[1] > maxPages
      /\ \A i \in 1..Len(Clean) : Clean[i] \in DigitChars \cup {","}) => result = <<>>
  /\ \A t \in PairTokens :
       (\A i \in 1..Len(Clean) : Clean[i] # ",") =>
         LET k == CHOOSE i \in 1..Len(Clean) : Clean[i] = "-"
             swapped == SubSeq(Clean, k + 1, Len(Clean)) \o <<"-">> \o SubSeq(Clean, 1, k - 1)
         IN  result = ParsePageRange(swapped, maxPages)

\* C10 as stated: the result is strictly ascending and within [0, maxPages-1],
\* holds N-1 for every single token N in range, and holds every index of every
\* pair A-B with both endpoints clamped to [1, maxPages].
C10_ClampedEndpoints ==
  parsePc = "done" =>
    /\ C10_Shape
    /\ \A t \in PairTokens :
         \A n \in Min2(Clamp(t[1]), Clamp(t[2]))..Max2(Clamp(t[1]), Clamp(t[2])) :
           (n - 1) \in Returned

\* C10 amended: as stated, but a pair A-B contributes the part of the inclusive
\* range between A and B that lies inside [1, maxPages], which is empty when the
\* pair lies wholly outside.
C10_RangeWithinBounds ==
  parsePc = "done" =>
    /\ C10_Shape
    /\ \A t \in PairTokens :
         \A n \in Max2(1, Min2(t[1], t[2]))..Min2(maxPages, Max2(t[1], t[2])) :
           (n - 1) \in Returned

C10_Witness ==
  /\ parsePc = "done"
  /\ maxPages = 2
  /\ \E t \in PairTokens : t[1] > t[2] /\ t[2] < 1
  /\ Len(input) > Len(Clean)
  /\ result = <<0, 1>>


\* ---- frame and history claims about the store
StoreUnchanged ==
  /\ pages = Pre.pages
  /\ files = Pre.files
  /\ selectedPageIds = Pre.selectedPageIds
  /\ past = Pre.past
  /\ future = Pre.future

PreSnapshot == [pages |-> Pre.pages, selectedPageIds |-> Pre.selectedPageIds]

\* C15: rotatePage and removePage with a page id that no page has, and removeFile
\* with a document id that is no key of files, leave pages, files, the selection,
\* past and future unchanged.
C15_AbsentIdNoOp ==
  /\ (LastOp \in {"rotatePage", "removePage"} /\ last.call.pageId \notin Ids(Pre.pages)) =>
       StoreUnchanged
  /\ (LastOp = "removeFile" /\ last.call.fileId \notin DOMAIN Pre.files) => StoreUnchanged

\* C16: with the history unlocked, each operation that changed pages has pushed
\* the snapshot of the pages and selection before it onto past (the entry an undo
\* restores) and emptied future; setPages with an unchanged id sequence and the
\* selection-only operations leave past and future unchanged.
C16_MutationsRecord ==
  /\ (/\ ~Pre.isHistoryLocked
      /\ pages # Pre.pages
      /\ LastOp \in {"addFilesAndPages", "removeFile", "removePage", "setPages",
                     "sortPagesByFileOrder", "rotatePage", "rotateSelectedPages",
                     "deleteSelectedPages", "duplicateSelectedPages"}) =>
       /\ past # <<>>
       /\ past[Len(past)] = PreSnapshot
       /\ Len(past) = Len(Pre.past) + 1 \/ Len(past) = HistoryCap
       /\ future = <<>>
  /\ (\/ LastOp = "setPages" /\ IdSeq(last.call.list) = IdSeq(Pre.pages)
      \/ LastOp \in {"toggleSelectPage", "selectAllPages", "deselectAllPages"}) =>
       past = Pre.past /\ future = Pre.future

C18_ToggleSelect ==
  LastOp = "toggleSelectPage" =>
    IF last.call.isMulti
    THEN selectedPageIds =
           IF last.call.pageId \in Pre.selectedPageIds
           THEN Pre.selectedPageIds \ {last.call.pageId}
           ELSE Pre.selectedPageIds \cup {last.call.pageId}
    ELSE selectedPageIds =
           IF Pre.selectedPageIds = {last.call.pageId} THEN {} ELSE {last.call.pageId}


\* C19: when getCachedDoc calls for the same document overlap, the document is
\* parsed at most once: no two calls in flight are parsing the same document.
C19_SingleParse ==
  \A c, k \in 1..MaxCalls :
    (c # k /\ calls[c].pc = "parsing" /\ calls[k].pc = "parsing") =>
      calls[c].file # calls[k].file

\* C20: no handle that a renderPageHighRes call in flight was given by
\* getCachedDoc, and is still using, has been destroyed.
C20_NoUseAfterDestroy == Borrowed \cap destroyed = {}


\* ---- what a search has to report, read off the texts
\* the lowercased q occurs in the lowercased t at the 0-based position i
OccursAt(t, q, i) ==
  /\ i >= 0
  /\ i + Len(q) <= Len(t)
  /\ \A j \in 1..Len(q) : LowerChar(t[i + j]) = LowerChar(q[j])

Occurrences(page) ==
  IF page.status = "ok"
  THEN {i \in 0..Len(page.text) : OccursAt(page.text, searchQuery, i)}
  ELSE {}

\* the matches of a group that belong to one page, in the order reported
MatchesOf(group, page) == LET OfPage(m) == m.pageId = page.id IN SelectSeq(group.matches, OfPage)

MissingIds == {exportPages[k].fileId : k \in 1..Len(exportPages)} \ fileMap

CeilDiv(n, d) == (n + d - 1) \div d

\* C12: mergePages with a page whose fileId is not in the file map fails with an
\* error that names the missing document id and gives no bytes; with no pages it
\* fails with the empty-selection error before any document is loaded.
C12_MergeErrors ==
  exportPc = "merged" =>
    /\ exportPages = <<>> =>
         /\ exportResult.thrown
         /\ exportResult.message.text = "No pages to merge"
         /\ exportResult.loaded = {}
    /\ MissingIds # {} =>
         /\ exportResult.thrown
         /\ exportResult.message.id \in MissingIds

\* C13: splitWorkspace in fixed_number mode with count >= 1 on N >= 1 pages gives
\* ceil(N / count) outputs; output k is named _part_k and holds the input pages at
\* positions (k-1)*count .. min(k*count, N)-1 in input order.
C13_FixedNumberChunks ==
  (/\ exportPc = "split"
   /\ config.mode = "fixed_number"
   /\ config.fixedCount >= 1
   /\ Len(exportPages) >= 1) =>
    /\ ~exportResult.thrown
    /\ Len(exportResult.outputs) = CeilDiv(Len(exportPages), config.fixedCount)
    /\ \A k \in 1..Len(exportResult.outputs) :
         /\ exportResult.outputs[k].name.suffix = "_part_"
         /\ exportResult.outputs[k].name.number = k
         /\ exportResult.outputs[k].pages =
              [j \in 1..(Min2(k * config.fixedCount, Len(exportPages)) - (k - 1) * config.fixedCount) |->
                 CopiedPage(exportPages[(k - 1) * config.fixedCount + j])]

\* C14: splitWorkspace in extract_all mode on N pages gives N outputs of one page
\* each, in input order, the output of a page named _page_ followed by that page's
\* own pageNumber.
C14_ExtractAllNames ==
  (exportPc = "split" /\ config.mode = "extract_all" /\ Len(exportPages) >= 1) =>
    /\ ~exportResult.thrown
    /\ Len(exportResult.outputs) = Len(exportPages)
    /\ \A k \in 1..Len(exportResult.outputs) :
         /\ exportResult.outputs[k].pages = <<CopiedPage(exportPages[k])>>
         /\ exportResult.outputs[k].name.suffix = "_page_"
         /\ exportResult.outputs[k].name.number = exportPages[k].pageNumber


\* C21: once replaceFileContent(d) has completed, the document cache holds no handle
\* for d that was parsed from the old content: every handle it held for d has been
\* taken out and destroyed, so a later getCachedDoc for d parses the new content.
C21_ReplaceEvictsHandle ==
  flowLast.op = "replaceFileContentDone" =>
    /\ \A i \in 1..Len(docCache) :
         docCache[i].id = flowLast.fileId =>
           parsedFrom[docCache[i].pdf] = files[flowLast.fileId]
    /\ \A i \in 1..Len(flowLast.cached) :
         flowLast.cached[i].id = flowLast.fileId => flowLast.cached[i].pdf \in destroyed

\* C23: right after clearWorkspace the pages, the files and the selection are empty
\* and both caches are empty: the search text cache has no entry and the document
\* cache holds no handle, every handle it held having been destroyed.
C23_ClearWorkspaceEmptiesCaches ==
  flowLast.op = "clearWorkspace" =>
    /\ pages = <<>>
    /\ files = <<>>
    /\ selectedPageIds = {}
    /\ textCache = {}
    /\ searchDocCache = {}
    /\ docCache = <<>>
    /\ \A i \in 1..Len(flowLast.cached) : flowLast.cached[i].pdf \in destroyed

\* C29: when document d was taken out of files (removeFile(d) or clearWorkspace)
\* while replaceFileContent(d) was waiting for the thumbnails, d is still absent
\* from files once replaceFileContent(d) has completed.
C29_RemovedStaysRemoved ==
  (flowLast.op = "replaceFileContentDone" /\ ~flowLast.present) =>
    flowLast.fileId \notin DOMAIN files

\* no replaceFileContent and no performSearch is in flight
FlowQuiet ==
  /\ \A c \in 1..MaxReplaces : replaces[c].pc = "idle"
  /\ \A c \in 1..MaxSearches : searches[c].pc = "idle"

\* C22: once the replaceFileContent calls and the performSearch calls have all
\* completed, textCache holds no entry of a document of the workspace that was
\* extracted from a content the document no longer has.
C22_NoStaleText ==
  FlowQuiet =>
    \A e \in textCache : e.fileId \in DOMAIN files => e.version = files[e.fileId]

\* C28: once the performSearch calls have all completed, searchResults are the
\* results of the call issued last (the one whose query is in searchQuery).
C28_LatestSearchWins ==
  (\A c \in 1..MaxSearches : searches[c].pc = "idle") =>
    searchState.resultsOf = searchState.issued

\* C24: for a query that is not blank and T pages, searchWorkspace calls onProgress
\* once per page, the i-th call with (i, T), whatever happened to the page; the
\* last call is (T, T).
C24_ProgressPerPage ==
  (searchPc = "done" /\ Trim(searchQuery) # <<>>) =>
    /\ Len(progressCalls) = Len(searchPages)
    /\ \A i \in 1..Len(progressCalls) :
         progressCalls[i] = [processed |-> i, total |-> Len(searchPages)]

\* C25: the first prompt of processFileWithPassword has isRetry = false and every
\* prompt that follows the rejection of a password the user supplied (the empty
\* string included) has isRetry = true; the loop ends only when the file is
\* unlocked, when a prompt is cancelled (the result is null) or when unlockPdfFile
\* throws an error that is not about the password.
C25_RetryFlag ==
  /\ \A i \in 1..Len(prompts) :
       /\ i = 1 => ~prompts[i].isRetry
       /\ prompts[i].afterRejected => prompts[i].isRetry
  /\ (pwPc = "returned" /\ pwResult = "file") => pwLast.unlock = "success"
  /\ (pwPc = "returned" /\ pwResult = "null") => pwLast.cancelled
  /\ pwPc = "thrown" => pwLast.unlock = "throws"

\* the place of document f in the list of document ids
PlaceIn(list, f) == CHOOSE k \in 1..Len(list) : list[k] = f

OfFile(pgs, f) == LET Keep(p) == p.fileId = f IN SelectSeq(pgs, Keep)

\* C27: after sortPagesByFileOrder(list), whatever the list of document ids, the
\* workspace holds exactly the pages it held before, none lost and none repeated;
\* the documents come in the order of the list, the pages of one document together
\* and in the order they had.
C27_SortKeepsPages ==
  LastOp = "sortPagesByFileOrder" =>
    /\ SameIdMultiset(pages, Pre.pages)
    /\ \A i, j \in 1..Len(pages) :
         i < j => PlaceIn(last.call.list, pages[i].fileId)
                    <= PlaceIn(last.call.list, pages[j].fileId)
    /\ \A f \in FileIdsIssued : OfFile(pages, f) = OfFile(Pre.pages, f)

\* C30: status is ERROR only when errorMessage is not null; while the operation of
\* the split flow or of the compress flow runs, status is PROCESSING.
C30_ErrorHasMessage ==
  /\ status = "error" => errorMessage # NoMessage
  /\ (job.pc = "running" /\ statusLast \in {"split", "compress"}) => status = "processing"

\* a step of the export itself
ExportStepped == [exportRun' EXCEPT !.during = 0] # [exportRun EXCEPT !.during = 0]

\* the export has returned or thrown what the arguments it was called with determine
ExportAsAtCall ==
  exportRun.pc = "done" =>
    /\ exportRun.outcome
         = ExportOf(exportRun.kind, exportRun.atCall.pages, exportRun.atCall.files,
                    exportRun.config)
    /\ \A f \in DOMAIN exportRun.loaded :
         /\ f \in DOMAIN exportRun.atCall.files
         /\ exportRun.loaded[f] = exportRun.atCall.files[f]

\* C26: an export called on the pages P and the files F returns what P and F, as
\* they were at the call, determine, whatever store calls (reorder, rotate, remove,
\* removeFile, replaceFileContent) run while it is in flight; and no step of the
\* export changes pages, files or selectedPageIds.
C26_ExportSeesCallTime ==
  /\ []ExportAsAtCall
  /\ [][ExportStepped => UNCHANGED <<pages, files, selectedPageIds>>]_vars

C26_Witness ==
  /\ exportRun.pc = "done"
  /\ exportRun.kind = "merge"
  /\ exportRun.during > 0
  /\ ~exportRun.outcome.thrown
  /\ pages # exportRun.atCall.pages
  /\ exportRun.atCall.pages # <<>>
=============================================================================
